---- MODULE Spec2Model ----
(***************************************************************************)
(* Model of the Tau2 synthetic-dialogue generation pipeline                *)
(* (Simia_SFT/Tau2): the tool-call validator of tool_correct.py, the       *)
(* response parser and conversation generator of                           *)
(* utils/conversation_generator.py and the batch orchestrator of           *)
(* utils/parallel_processor.py.                                            *)
(*                                                                         *)
(* Text is modelled by what the code reads of it.  A string is a sequence  *)
(* of tokens; a turn value is a sequence of atoms (a word, a <think> block,*)
(* a JSON text, a <tool_call> block); a JSON text is the record of what    *)
(* json.loads makes of it.  A Python Optional is a sequence of length 0    *)
(* (None) or 1.                                                            *)
(***************************************************************************)
EXTENDS Integers, Sequences, FiniteSets, TLC

VARIABLES
    \* ---- tool validator (tool_correct.py) ----
    vphase,     \* "conv" | "call": which input this behaviour validates; "off" under the other specifications
    vconv,      \* the conversation handed to validate_and_fix_conversation
    vout,       \* its outcome: <<>> before the call, else <<[kind, conv]>>
    vdomain,    \* domain argument of _validate_and_fix_tool_call
    vcall,      \* tool_call argument of _validate_and_fix_tool_call
    vcallout,   \* its outcome: <<>> before the call, else <<result>> with result None or Some
    vagain      \* outcome of validate_and_fix_conversation on the conversation it returned, <<>> before

VARIABLES
    \* ---- generation run (utils/parallel_processor.py) ----
    config,               \* the configuration file's content
    progress_file,        \* the progress file: <<>> (absent) or <<CheckpointRecord>>
    backups,              \* the progress files renamed by backup_progress, oldest first
    pc,                   \* "idle" (no run), "batch" (in process_batch), "commit" (between extend and save_progress)
    run,                  \* generation runs started so far
    conversations,        \* generate_conversations_parallel: the in-memory list
    start_count,          \* its start_count
    samples_to_generate,  \* its samples_to_generate
    i,                    \* offset of the current batch in samples_to_generate
    wstate,               \* per future of the batch: "queued", "running", "done"
    batch_results,        \* process_batch: the results collected so far
    output,               \* what the last finished run returned: <<>> or <<list>>
    hist                  \* history of the behaviour, read only by the properties

VARIABLES
    \* ---- local scorer (score_sycophancy_local.py) ----
    sconv,      \* the conversation handed to analyze_conversation; <<>> under the other specifications
    sout,       \* the results of the calls made for it, in order: each a ConversationScore
    sprior      \* the conversations the process of the latest call had scored before that call

VARIABLES
    \* ---- call log (utils/gpt_logger.py) ----
    enable_logging,  \* gpt_log_settings.enable_logging
    log_threads,     \* per worker thread of the batch: its position in the retry loop and in log_gpt_call
    log_file         \* the log file after its header line: the writes made to it, in order

VARIABLES
    \* ---- LLM judge (score_sycophancy_llm.py) ----
    jfile,      \* the per-mode JSONL: its records, in order
    jpc,        \* "off", "idle" before the first run, "loop", "returned", "killed"
    jrun,       \* runs started
    jalready,   \* main: already
    jidx,       \* main: conv_idx of the loop
    jattempt,   \* _score_one: attempt
    jtrace,     \* per conv_idx: the evaluator's answers to the calls of the current run
    jstart      \* the length of the JSONL when the current run started

VARIABLES
    \* ---- one generation attempt (utils/conversation_generator.py) ----
    asample,    \* the domain word of the sample's text, "other" when it has none
    amode,      \* the simulator mode handed to the generator
    apc,        \* "off", "start", "raised", "prompted", "failed", "responded", "parsed"
    aprompt,    \* what the prompt builder gave
    aresponse,  \* the completer's answer, by lines
    aturns      \* the turns parsed from it

VARIABLES
    \* ---- configuration fingerprints (utils/config.py) ----
    hapi,       \* api_type
    hcfg,       \* a configuration
    hother,     \* a second configuration
    hout        \* <<>> or the fingerprints of the two

valVars == <<vphase, vconv, vout, vdomain, vcall, vcallout, vagain>>

scoreVars == <<sconv, sout, sprior>>

logVars == <<enable_logging, log_threads, log_file>>

judgeVars == <<jfile, jpc, jrun, jalready, jidx, jattempt, jtrace, jstart>>

attemptVars == <<asample, amode, apc, aprompt, aresponse, aturns>>

hashVars == <<hapi, hcfg, hother, hout>>

genVars == <<config, progress_file, backups, pc, run, conversations, start_count,
             samples_to_generate, i, wstate, batch_results, output, hist>>

vars == <<valVars, genVars, scoreVars, logVars, judgeVars, attemptVars, hashVars>>

-----------------------------------------------------------------------------
(* Python Optional *)
None == <<>>
Some(x) == <<x>>

(* ---------------------------- strings ---------------------------------- *)
Digits == {"1", "2"}
NL == "\n"

StartsWith(s, p) == Len(s) >= Len(p) /\ SubSeq(s, 1, Len(p)) = p

\* re.match(r'^\d+$', s): '$' also matches before a newline that ends the string
ReDigits(s) ==
    LET core == IF Len(s) > 0 /\ s[Len(s)] = NL THEN SubSeq(s, 1, Len(s) - 1) ELSE s
    IN  Len(core) > 0 /\ \A k \in 1..Len(core) : core[k] \in Digits

\* re.match(r'^C\d+$', s) for the letter c
RePrefixed(c, s) == Len(s) >= 1 /\ s[1] = c /\ ReDigits(Tail(s))

(* ---------------------------- JSON values ------------------------------ *)
\* t: the Python type json.loads gives; s: the tokens of a str, the element
\* types of a list; n: the magnitude of a number
JV(t, s, n) == [t |-> t, s |-> s, n |-> n]
JStr(s) == JV("str", s, 0)
JInt(n) == JV("int", <<>>, n)
JFloat(n) == JV("float", <<>>, n)
JBool == JV("bool", <<>>, 1)
JList(ts) == JV("list", ts, 0)
JDict == JV("dict", <<>>, 0)
JNull == JV("null", <<>>, 0)

\* A token of a JSON string as its text writes it: a "<think>..</think>" written
\* with \u003c and \u003e escapes holds no "<think>" in the text; json.loads gives
\* the tag itself and json.dumps writes "<" and ">" as they are
ThinkTagEscaped == "\\u003cthink\\u003ea\\u003c/think\\u003e"
ThinkTagLiteral == "<think>a</think>"

\* json.loads of one value of the text
loads_value(value) ==
    IF value.t # "str" THEN value
    ELSE JStr([k \in 1..Len(value.s) |-> IF value.s[k] = ThinkTagEscaped THEN ThinkTagLiteral ELSE value.s[k]])

\* json.loads of the members of an object of the text
loads_members(args) == [key \in DOMAIN args |-> loads_value(args[key])]

\* "<think>" in text and "</think>" in text, for the text of an object
TextHoldsThinkTag(args) ==
    \E key \in DOMAIN args :
        /\ args[key].t = "str"
        /\ \E k \in 1..Len(args[key].s) : args[key].s[k] = ThinkTagLiteral

(* ------------------------ tool specifications -------------------------- *)
\* parameters.properties[name]: its "type" and the "type" of its "items" ("" when absent)
PSpec(t, items) == [type |-> t, items |-> items]

\* The three tool sets read from the tools specification file, as name -> function spec
telecom_tools ==
    ("send_payment_request" :>
        [properties |-> ("customer_id" :> PSpec("string", "") @@ "bill_id" :> PSpec("string", "")),
         required |-> {"customer_id", "bill_id"}])
    @@ ("refuel_data" :>
        [properties |-> ("customer_id" :> PSpec("string", "") @@ "line_id" :> PSpec("string", "")
                         @@ "gb_amount" :> PSpec("number", "")),
         required |-> {"customer_id", "line_id", "gb_amount"}])

retail_tools ==
    ("modify_pending_order_payment" :>
        [properties |-> ("order_id" :> PSpec("string", "") @@ "payment_method_id" :> PSpec("string", "")),
         required |-> {"order_id", "payment_method_id"}])
    @@ ("modify_user_address" :>
        [properties |-> ("user_id" :> PSpec("string", "") @@ "email" :> PSpec("string", "")),
         required |-> {"user_id"}])

airline_tools ==
    ("update_reservation_baggages" :>
        [properties |-> ("reservation_id" :> PSpec("string", "") @@ "total_baggages" :> PSpec("integer", "")
                         @@ "insured" :> PSpec("boolean", "")),
         required |-> {"reservation_id", "total_baggages"}])
    @@ ("book_reservation" :>
        [properties |-> ("passengers" :> PSpec("array", "object") @@ "flight_numbers" :> PSpec("array", "string")
                         @@ "tags" :> PSpec("array", "") @@ "options" :> PSpec("object", "")),
         required |-> {"passengers"}])

tools_of(domain) ==
    CASE domain = "retail" -> retail_tools
      [] domain = "airline" -> airline_tools
      [] domain = "telecom" -> telecom_tools
      [] OTHER -> <<>>

(* ------------------------ parameter checks ----------------------------- *)
\* isinstance(value, ...) for a value of Python type tag; bool is a subclass of int
TypeMatches(tag, expected_type) ==
    CASE expected_type = "string" -> tag = "str"
      [] expected_type = "array" -> tag = "list"
      [] expected_type = "object" -> tag = "dict"
      [] expected_type = "number" -> tag \in {"int", "float", "bool"}
      [] expected_type = "integer" -> tag \in {"int", "bool"}
      [] expected_type = "boolean" -> tag = "bool"
      [] OTHER -> TRUE

validate_parameter_type(value, expected_type, param_spec) ==
    IF expected_type = "array"
    THEN /\ value.t = "list"
         /\ (param_spec.items # "" =>
                \A k \in 1..Len(value.s) : TypeMatches(value.s[k], param_spec.items))
    ELSE TypeMatches(value.t, expected_type)

fix_parameter_format_telecom(param_name, param_value) ==
    IF param_value.t # "str" THEN param_value
    ELSE IF param_name = "customer_id" /\ ReDigits(param_value.s) THEN JStr(<<"C">> \o param_value.s)
    ELSE IF param_name = "line_id" /\ ReDigits(param_value.s) THEN JStr(<<"L">> \o param_value.s)
    ELSE IF param_name = "bill_id" /\ ReDigits(param_value.s) THEN JStr(<<"B">> \o param_value.s)
    ELSE param_value

validate_parameter_format_telecom(param_name, param_value) ==
    IF param_value.t # "str" THEN TRUE
    ELSE IF param_name = "customer_id" THEN RePrefixed("C", param_value.s)
    ELSE IF param_name = "line_id" THEN RePrefixed("L", param_value.s)
    ELSE IF param_name = "bill_id" THEN RePrefixed("B", param_value.s)
    ELSE TRUE

fix_parameter_format_retail(param_name, param_value) ==
    IF param_value.t # "str" THEN param_value
    ELSE IF param_name = "order_id" /\ ~StartsWith(param_value.s, <<"#">>)
         THEN JStr(<<"#">> \o param_value.s)
    ELSE param_value

validate_parameter_format_retail(param_name, param_value) ==
    IF param_value.t # "str" THEN TRUE
    ELSE IF param_name = "order_id" THEN StartsWith(param_value.s, <<"#">>)
    ELSE IF param_name = "email" THEN \E k \in 1..Len(param_value.s) : param_value.s[k] = "@"
    ELSE IF param_name = "payment_method_id"
         THEN \/ StartsWith(param_value.s, <<"gift", "_", "card", "_">>)
              \/ StartsWith(param_value.s, <<"credit", "_", "card", "_">>)
              \/ StartsWith(param_value.s, <<"paypal", "_">>)
    ELSE TRUE

\* param_value.split("_", 1)[-1]: what follows the first "_"
AfterFirstUnderscore(str) ==
    IF \E k \in 1..Len(str) : str[k] = "_"
    THEN SubSeq(str, (CHOOSE k \in 1..Len(str) : str[k] = "_" /\ \A m \in 1..(k - 1) : str[m] # "_") + 1, Len(str))
    ELSE str

\* ToolUseValidator._fix_parameter_format, the single-domain validator of the same file
single_domain_fix_parameter_format(domain, param_name, param_value) ==
    IF param_value.t # "str" THEN param_value
    ELSE IF domain = "retail" /\ param_name = "order_id" /\ ~StartsWith(param_value.s, <<"#">>)
         THEN JStr(<<"#">> \o param_value.s)
    ELSE IF domain = "retail" /\ param_name = "payment_method_id"
         THEN LET str == param_value.s
                  card_id == AfterFirstUnderscore(str)
              IN  IF \/ StartsWith(str, <<"paypal", "_">>)
                     \/ StartsWith(str, <<"credit", "_", "card", "_">>)
                     \/ StartsWith(str, <<"gift", "_", "card", "_">>)
                  THEN param_value
                  ELSE IF \/ StartsWith(str, <<"cc", "_">>) \/ StartsWith(str, <<"card", "_">>)
                          \/ StartsWith(str, <<"credit", "_">>)
                       THEN JStr(<<"credit", "_", "card", "_">> \o card_id)
                  ELSE IF StartsWith(str, <<"giftcard", "_">>) \/ StartsWith(str, <<"gc", "_">>)
                       THEN JStr(<<"gift", "_", "card", "_">> \o card_id)
                  ELSE IF StartsWith(str, <<"gift", "_">>) /\ str # <<"gift", "_", "card">>
                       THEN JStr(<<"gift", "_", "card", "_">> \o card_id)
                  ELSE IF str = <<"gift", "_", "card">> THEN param_value
                  ELSE IF StartsWith(str, <<"visa", "_">>) \/ StartsWith(str, <<"creditcard", "_">>)
                       THEN JStr(<<"credit", "_", "card", "_">> \o card_id)
                  ELSE param_value
    ELSE IF domain = "telecom"
         THEN fix_parameter_format_telecom(param_name, param_value)
    ELSE param_value

fix_parameter_format(domain, param_name, param_value) ==
    CASE domain = "retail" -> fix_parameter_format_retail(param_name, param_value)
      [] domain = "telecom" -> fix_parameter_format_telecom(param_name, param_value)
      [] OTHER -> param_value

validate_parameter_format(domain, param_name, param_value) ==
    CASE domain = "retail" -> validate_parameter_format_retail(param_name, param_value)
      [] domain = "telecom" -> validate_parameter_format_telecom(param_name, param_value)
      [] OTHER -> TRUE

(* ------------------------ one tool call -------------------------------- *)
\* A tool call {"function": {"name", "arguments"}}: name ("" when None or empty),
\* akind: what "arguments" is ("dict"; "strdict", a string that json.loads to an
\* object; "strnondict", a string that loads to something else; "strbad", a string
\* that does not load; "other", a list, number, bool or null; "absent"), args:
\* the object's members
Call(name, akind, args) == [name |-> name, akind |-> akind, args |-> args]

ArgumentOk(domain, properties, param_name, param_value) ==
    /\ validate_parameter_type(param_value, properties[param_name].type, properties[param_name])
    /\ validate_parameter_format(domain, param_name,
                                 fix_parameter_format(domain, param_name, param_value))

validate_and_fix_tool_call(tool_call, tools_dict, domain) ==
    IF tool_call.name = "" \/ tool_call.name \notin DOMAIN tools_dict THEN None
    ELSE IF tool_call.akind \notin {"dict", "strdict", "absent"} THEN None
    ELSE LET \* function_info.get("arguments", {}); a str is json.loads-ed first
             arguments == IF tool_call.akind = "absent" THEN <<>> ELSE tool_call.args
             properties == tools_dict[tool_call.name].properties
             required_params == tools_dict[tool_call.name].required
         IN  IF \E param \in required_params : param \notin DOMAIN arguments THEN None
             ELSE IF \E param_name \in DOMAIN arguments : param_name \notin DOMAIN properties THEN None
             ELSE IF \E param_name \in DOMAIN arguments :
                        ~ArgumentOk(domain, properties, param_name, arguments[param_name])
                  THEN None
             ELSE Some(Call(tool_call.name, "dict",
                            [param_name \in DOMAIN arguments |->
                                fix_parameter_format(domain, param_name, arguments[param_name])]))

(* ------------------------ turn values ---------------------------------- *)
\* What json.loads makes of a JSON text: ok (it loads), isdict (to an object),
\* the object's "name" and "arguments" (as in Call), canon (the text is exactly
\* json.dumps({"name": .., "arguments": ..}) of its content), mthink (a text that
\* does not load and contains "name": "think")
Body(ok, isdict, name, akind, args, canon, mthink) ==
    [ok |-> ok, isdict |-> isdict, name |-> name, akind |-> akind, args |-> args,
     canon |-> canon, mthink |-> mthink]
NoBody == Body(FALSE, FALSE, "", "absent", <<>>, FALSE, FALSE)
CallBody(name, akind, args) == Body(TRUE, TRUE, name, akind, args, FALSE, FALSE)
\* json.dumps({"name": .., "arguments": ..}) of a validated call
dumps(call) == Body(TRUE, TRUE, call.name, "dict", call.args, TRUE, call.name = "think")

\* A turn value is a sequence of atoms: a word (w its text), a <think>w</think>
\* block, a JSON text (j what it loads to), a <tool_call>j</tool_call> block
Atom(a, w, j) == [a |-> a, w |-> w, j |-> j]
Word(w) == Atom("word", w, NoBody)
Think(w) == Atom("think", w, NoBody)
Json(j) == Atom("json", "", j)
ToolCallBlock(j) == Atom("toolcall", "", j)

Turn(from, value) == [from |-> from, value |-> value]

\* the atom's text holds "<think>..</think>": a think block, or a JSON text with
\* the tag unescaped inside one of its strings
HoldsThinkTag(atom) ==
    \/ atom.a = "think"
    \/ atom.a \in {"json", "toolcall"} /\ TextHoldsThinkTag(atom.j.args)

\* index of the atom where re.search(r'<think>(.*?)</think>\s*(.*)') matches first,
\* 0 when there is none
FirstThink(content) ==
    IF \E k \in 1..Len(content) : HoldsThinkTag(content[k])
    THEN CHOOSE k \in 1..Len(content) :
            HoldsThinkTag(content[k]) /\ \A m \in 1..(k - 1) : ~HoldsThinkTag(content[m])
    ELSE 0

\* json_part: the text after the first match (re.search group 2), else all of it;
\* after a match inside a JSON text it begins with the rest of that text
JsonPart(content) ==
    IF FirstThink(content) = 0 THEN content
    ELSE IF content[FirstThink(content)].a = "think"
         THEN SubSeq(content, FirstThink(content) + 1, Len(content))
    ELSE <<Word("rest")>> \o SubSeq(content, FirstThink(content) + 1, Len(content))

\* json.loads(json_part) succeeds
Loads(json_part) == Len(json_part) = 1 /\ json_part[1].a = "json" /\ json_part[1].j.ok

(* ------------------------ _contains_think ------------------------------ *)
\* what one message does to the scan: "think" (return True), "raise" (an
\* AttributeError, which only json.JSONDecodeError is caught for), "next"
ThinkScan(msg) ==
    LET json_part == JsonPart(msg.value)
        fc == IF msg.from # "function_call" THEN "next"
              ELSE IF Loads(json_part)
                   THEN IF ~json_part[1].j.isdict THEN "raise"
                        ELSE IF json_part[1].j.name = "think" THEN "think" ELSE "next"
                   ELSE IF \E k \in 1..Len(json_part) : json_part[k].j.mthink THEN "think" ELSE "next"
        blocks == \E k \in 1..Len(msg.value) :
                     /\ msg.value[k].a = "toolcall"
                     /\ IF msg.value[k].j.ok THEN msg.value[k].j.name = "think"
                        ELSE msg.value[k].j.mthink
    IN  IF fc # "next" THEN fc ELSE IF blocks THEN "think" ELSE "next"

\* "think" | "raise" | "none": decided by the first message that ends the scan
contains_think(conversation) ==
    LET msgs == conversation.conversations
        hits == {k \in 1..Len(msgs) : ThinkScan(msgs[k]) # "next"}
    IN  IF hits = {} THEN "none"
        ELSE ThinkScan(msgs[CHOOSE k \in hits : \A m \in hits : k <= m])

(* ------------------------ domain detection ----------------------------- *)
\* conversation.system is the set of domain words its system text contains
is_domain(conversation, word) ==
    \/ word \in conversation.system
    \/ \E k \in 1..Len(conversation.conversations) :
          /\ conversation.conversations[k].from = "system"
          /\ \E m \in 1..Len(conversation.conversations[k].value) :
                conversation.conversations[k].value[m] = Word(word)

(* ------------------------ messages ------------------------------------- *)
fix_function_call_message(message, tools_dict, domain) ==
    LET content == message.value
        think_content == IF FirstThink(content) = 0 THEN <<>>
                         ELSE IF content[FirstThink(content)].a = "think"
                              THEN <<content[FirstThink(content)]>>
                         ELSE <<Think("a")>>
        json_part == JsonPart(content)
    IN  IF ~Loads(json_part) THEN None
        ELSE IF ~json_part[1].j.isdict THEN None
        ELSE LET tool_call_data == json_part[1].j
                 \* tool_call_data.get("arguments", {})
                 formatted_call ==
                     IF tool_call_data.akind = "absent" THEN Call(tool_call_data.name, "dict", <<>>)
                     ELSE Call(tool_call_data.name, tool_call_data.akind,
                               loads_members(tool_call_data.args))
                 fixed_call == validate_and_fix_tool_call(formatted_call, tools_dict, domain)
             IN  IF fixed_call = None THEN None
                 ELSE Some(Turn(message.from, think_content \o <<Json(dumps(fixed_call[1]))>>))

\* one <tool_call> block of an assistant message: None, or the rewritten block
FixBlock(atom, tools_dict, domain) ==
    IF atom.a # "toolcall" THEN Some(atom)
    ELSE IF ~atom.j.ok \/ ~atom.j.isdict THEN None
    ELSE IF atom.j.akind = "absent" THEN None
    ELSE LET fixed_call ==
                 validate_and_fix_tool_call(Call(atom.j.name, atom.j.akind, loads_members(atom.j.args)),
                                            tools_dict, domain)
         IN  IF fixed_call = None THEN None ELSE Some(ToolCallBlock(dumps(fixed_call[1])))

fix_message_tool_calls(message, tools_dict, domain) ==
    IF message.from = "function_call" THEN fix_function_call_message(message, tools_dict, domain)
    ELSE IF message.from \notin {"assistant", "gpt"} THEN Some(message)
    ELSE IF \A k \in 1..Len(message.value) : message.value[k].a # "toolcall" THEN Some(message)
    ELSE IF \E k \in 1..Len(message.value) : FixBlock(message.value[k], tools_dict, domain) = None
         THEN None
    ELSE Some(Turn(message.from,
                   [k \in 1..Len(message.value) |-> FixBlock(message.value[k], tools_dict, domain)[1]]))

(* ------------------------ conversations -------------------------------- *)
\* Outcome of validate_and_fix_conversation: kind "discard" (None returned),
\* "conv" (a conversation returned) or "raise" (an exception leaves the call)
Outcome(kind, conv) == [kind |-> kind, conv |-> conv]

validate_with_tools(conversation, tools_dict, domain) ==
    LET msgs == conversation.conversations
    IN  IF \E k \in 1..Len(msgs) : fix_message_tool_calls(msgs[k], tools_dict, domain) = None
        THEN Outcome("discard", None)
        ELSE Outcome("conv",
                 Some([conversation EXCEPT !.conversations =
                         [k \in 1..Len(msgs) |-> fix_message_tool_calls(msgs[k], tools_dict, domain)[1]]]))

validate_and_fix_conversation(conversation) ==
    IF contains_think(conversation) = "raise" THEN Outcome("raise", None)
    ELSE IF contains_think(conversation) = "think" THEN Outcome("discard", None)
    ELSE IF is_domain(conversation, "retail") THEN validate_with_tools(conversation, retail_tools, "retail")
    ELSE IF is_domain(conversation, "airline") THEN validate_with_tools(conversation, airline_tools, "airline")
    ELSE IF is_domain(conversation, "telecom") THEN validate_with_tools(conversation, telecom_tools, "telecom")
    ELSE Outcome("conv", Some(conversation))

(* ======================================================================= *)
(* Inputs of the validator                                                 *)
(* ======================================================================= *)
MaxTurns == 2

TypedValues ==
    {JStr(<<"x">>), JInt(1), JFloat(3), JBool, JList(<<>>), JList(<<"str">>),
     JList(<<"int">>), JList(<<"dict">>), JDict, JNull}

StrPool(key) ==
    CASE key \in {"customer_id", "line_id", "bill_id"} ->
            {<<"1", "2">>, <<"C", "1">>, <<"L", "1">>, <<"B", "1">>, <<"C">>, <<"1", NL>>, <<"C", "1", "x">>}
      [] key = "order_id" -> {<<"#", "W", "1">>, <<"W", "1">>, <<>>}
      [] key = "payment_method_id" ->
            {<<"gift", "_", "card", "_", "1">>, <<"credit", "_", "card", "_", "1">>, <<"paypal", "_", "1">>,
             <<"cc", "_", "1">>, <<"giftcard", "_", "1">>, <<"gift", "_", "card">>}
      [] key = "email" -> {<<"a", "@", "b">>, <<"a">>}
      [] OTHER -> {}

ValuePool(key) ==
    IF key = "extra" THEN {JInt(1)}
    ELSE TypedValues \cup {JStr(str) : str \in StrPool(key)}

\* the argument objects tried for a tool: any members among its properties and
\* one undeclared key
ArgKeys(domain, name) ==
    (IF name \in DOMAIN tools_of(domain) THEN DOMAIN tools_of(domain)[name].properties ELSE {})
    \cup {"extra"}

RECURSIVE ArgObjectsOver(_)
ArgObjectsOver(keys) ==
    IF keys = {} THEN {<<>>}
    ELSE LET key == CHOOSE k \in keys : TRUE
             rest == ArgObjectsOver(keys \ {key})
         IN  rest \cup {(key :> v) @@ a : v \in ValuePool(key), a \in rest}

ArgObjects(domain, name) == ArgObjectsOver(ArgKeys(domain, name))

CallsNamed(domain, name) ==
    {Call(name, akind, args) :
        akind \in {"dict", "strdict"}, args \in ArgObjects(domain, name)}
    \cup {Call(name, akind, <<>>) : akind \in {"strnondict", "strbad", "other", "absent"}}

CallNames(domain) == DOMAIN tools_of(domain) \cup {"", "unknown_tool"}

GoodTelecomArgs == ("customer_id" :> JStr(<<"1", "2">>) @@ "bill_id" :> JStr(<<"B", "1">>))

TurnPool ==
    {Turn("human", <<Word("hi")>>),
     Turn("gpt", <<Word("ok")>>),
     Turn("observation", <<Word("done")>>),
     Turn("system", <<Word("telecom")>>),
     Turn("function_call", <<Json(CallBody("send_payment_request", "dict", GoodTelecomArgs))>>),
     Turn("function_call", <<Word("pre"), Think("r"),
                             Json(CallBody("send_payment_request", "strdict", GoodTelecomArgs))>>),
     Turn("function_call", <<Json(CallBody("send_payment_request", "dict",
                                           "customer_id" :> JStr(<<"C", "1">>)))>>),
     Turn("function_call", <<Json(Body(TRUE, FALSE, "", "absent", <<>>, FALSE, FALSE))>>),
     Turn("function_call", <<Json(Body(FALSE, FALSE, "", "absent", <<>>, FALSE, FALSE))>>),
     Turn("function_call", <<Json(CallBody("think", "dict", <<>>))>>),
     Turn("function_call", <<Json(CallBody("modify_pending_order_payment", "dict",
              "order_id" :> JStr(<<"W", "1">>) @@ "payment_method_id" :> JStr(<<"paypal", "_", "1">>)))>>),
     Turn("function_call", <<Json(CallBody("modify_user_address", "dict",
                                           "user_id" :> JStr(<<ThinkTagEscaped>>)))>>),
     Turn("function_call", <<Think("r"), Json(CallBody("modify_user_address", "dict",
                                           "user_id" :> JStr(<<ThinkTagLiteral>>)))>>),
     Turn("gpt", <<Word("x"), ToolCallBlock(CallBody("send_payment_request", "dict", GoodTelecomArgs))>>),
     Turn("gpt", <<ToolCallBlock(CallBody("unknown_tool", "dict", <<>>))>>),
     Turn("human", <<ToolCallBlock(Body(FALSE, FALSE, "", "absent", <<>>, FALSE, TRUE))>>)}

SystemTexts == {{}, {"retail"}, {"airline"}, {"telecom"}, {"retail", "telecom"}}

TurnLists == UNION {[1..n -> TurnPool] : n \in 1..MaxTurns}

ConvInputs == {[system |-> sys, conversations |-> turns] : sys \in SystemTexts, turns \in TurnLists}

NoConv == [system |-> {}, conversations |-> <<>>]
NoCall == Call("", "absent", <<>>)

(* ======================================================================= *)
(* SpecVal: the validator applied to one input                             *)
(* ======================================================================= *)
ScoreOff == sconv = <<>> /\ sout = <<>> /\ sprior = <<>>

LogOff == enable_logging = FALSE /\ log_threads = <<>> /\ log_file = <<>>

JudgeOff ==
    /\ jfile = <<>> /\ jpc = "off" /\ jrun = 0 /\ jalready = {} /\ jidx = 0 /\ jattempt = 0
    /\ jtrace = <<>> /\ jstart = 0

AttemptOff ==
    /\ asample = "" /\ amode = "" /\ apc = "off" /\ aprompt = <<>> /\ aresponse = <<>>
    /\ aturns = <<>>

HashOff == hapi = "" /\ hcfg = <<>> /\ hother = <<>> /\ hout = <<>>

GenOff ==
    /\ config = <<>> /\ progress_file = <<>> /\ backups = <<>> /\ pc = "off" /\ run = 0
    /\ conversations = <<>> /\ start_count = 0 /\ samples_to_generate = <<>> /\ i = 0
    /\ wstate = <<>> /\ batch_results = <<>> /\ output = <<>> /\ hist = <<>>

InitVal ==
    /\ GenOff
    /\ ScoreOff
    /\ LogOff
    /\ JudgeOff
    /\ AttemptOff
    /\ HashOff
    /\ vout = <<>>
    /\ vcallout = <<>>
    /\ vagain = <<>>
    /\ \/ /\ vphase = "conv"
          /\ vconv \in ConvInputs
          /\ vdomain = "telecom"
          /\ vcall = NoCall
       \/ /\ vphase = "call"
          /\ vconv = NoConv
          /\ \E domain \in {"retail", "airline", "telecom"} :
                \E name \in CallNames(domain) :
                    /\ vdomain = domain
                    /\ vcall \in CallsNamed(domain, name)

\* MultiDomainToolUseValidator.validate_and_fix_conversation(conversation)
ValidateConversation ==
    /\ vphase = "conv"
    /\ vout = <<>>
    /\ vout' = <<validate_and_fix_conversation(vconv)>>
    /\ UNCHANGED <<vphase, vconv, vdomain, vcall, vcallout, vagain, genVars, scoreVars, logVars, judgeVars, attemptVars, hashVars>>

\* MultiDomainToolUseValidator._validate_and_fix_tool_call(tool_call, tools_dict, domain)
ValidateToolCall ==
    /\ vphase = "call"
    /\ vcallout = <<>>
    /\ vcallout' = <<validate_and_fix_tool_call(vcall, tools_of(vdomain), vdomain)>>
    /\ UNCHANGED <<vphase, vconv, vdomain, vcall, vout, vagain, genVars, scoreVars, logVars, judgeVars, attemptVars, hashVars>>

\* validate_and_fix_conversation applied to the conversation it returned
ValidateAgain ==
    /\ vphase = "conv"
    /\ vout # <<>>
    /\ vout[1].kind = "conv"
    /\ vagain = <<>>
    /\ vagain' = <<validate_and_fix_conversation(vout[1].conv[1])>>
    /\ UNCHANGED <<vphase, vconv, vdomain, vcall, vout, vcallout, genVars, scoreVars, logVars, judgeVars, attemptVars, hashVars>>

NextVal == ValidateConversation \/ ValidateToolCall \/ ValidateAgain

SpecVal == InitVal /\ [][NextVal]_vars

(* ======================================================================= *)
(* The generation run: configuration                                       *)
(* utils/config.py, utils/main_generator.py                                *)
(* ======================================================================= *)
TargetCount == 3        \* generation_settings.max_conversations
BatchSize == 2          \* generation_settings.batch_size
ParallelWorkers == 2    \* generation_settings.parallel_workers
RetryAttempts == 2      \* generation_settings.retry_attempts
NumSeeds == 2           \* seed conversations in the sample data file
MaxRuns == 2            \* generation runs of one behaviour

Config(temperature, simulator_mode, save_progress) ==
    [temperature |-> temperature, max_tokens |-> 1000, deployment |-> "gpt-4o",
     openai_model |-> "gpt-4o", sample_data_path |-> "seeds.json",
     simulator_mode |-> simulator_mode, save_progress |-> save_progress]

\* ConfigManager.get_simulator_mode: an unknown mode is reported and replaced by "base"
get_simulator_mode(cfg) ==
    IF cfg.simulator_mode \in {"base", "strict", "sycophantic"} THEN cfg.simulator_mode ELSE "base"

\* ConfigManager.get_config_hash: the digest of exactly these five values
get_config_hash(cfg) ==
    [temperature |-> cfg.temperature, max_tokens |-> cfg.max_tokens, model |-> cfg.deployment,
     sample_data_path |-> cfg.sample_data_path, simulator_mode |-> get_simulator_mode(cfg)]

\* ParallelProcessor.__init__: self.save_intermediate
save_intermediate == config.save_progress

(* ======================================================================= *)
(* The progress store (utils/progress_manager.py)                          *)
(* ======================================================================= *)
CheckpointRecord(completed, target_count, config_fingerprint) ==
    [completed |-> completed, target_count |-> target_count, config_fingerprint |-> config_fingerprint]

has_progress(file) == file /= None

\* load() -> (Checkpoint, fingerprint_matches); empty on an absent file
load(file, config_hash) ==
    IF file = None
    THEN [completed |-> <<>>, fingerprint_matches |-> FALSE]
    ELSE [completed |-> file[1].completed,
          fingerprint_matches |-> file[1].config_fingerprint = config_hash]

\* ProgressManager.load_progress(): the callers receive the list alone
load_progress(file, config_hash) == load(file, config_hash).completed

\* the whole record replaces the file in one step
save_progress(completed, target_count, config_hash) ==
    Some(CheckpointRecord(completed, target_count, config_hash))

\* the progress file is renamed to a timestamped backup
backup_progress(file, kept) == IF file = None THEN kept ELSE Append(kept, file[1])

(* ======================================================================= *)
(* Seeds (utils/data_loader.py) and completer responses                    *)
(* ======================================================================= *)
Seeds == 1..NumSeeds

\* seed 2 is a conversation whose text names none of the three domains
Sample(seed) ==
    [id |-> seed,
     system |-> IF seed % 3 = 1 THEN {"telecom"} ELSE IF seed % 3 = 2 THEN {"retail"} ELSE {"airline"},
     text_domain |-> IF seed % 3 = 1 THEN "telecom" ELSE IF seed % 3 = 2 THEN "other" ELSE "airline"]

get_random_sample == Seeds

Line(p, c) == [p |-> p, c |-> c]

Exc == [exc |-> TRUE, lines |-> <<>>]
Resp(lines) == [exc |-> FALSE, lines |-> lines]

\* a well-formed trajectory; the call and its reasoning continue on the lines
\* after the FUNCTION_CALL: prefix
RespGood ==
    Resp(<<Line("HUMAN:", <<Word("hi")>>),
           Line("FUNCTION_CALL:", <<>>),
           Line("", <<Think("r")>>),
           Line("", <<>>),
           Line("", <<Json(CallBody("send_payment_request", "dict", GoodTelecomArgs))>>),
           Line("OBSERVATION:", <<Word("ok")>>)>>)

\* a malformed trajectory: it opens with an observation that no call precedes,
\* and its call omits the required bill_id while the observation reports success
RespMalformed ==
    Resp(<<Line("OBSERVATION:", <<Word("ok")>>),
           Line("FUNCTION_CALL:",
                <<Json(CallBody("send_payment_request", "dict", ("customer_id" :> JStr(<<"C", "1">>))))>>),
           Line("OBSERVATION:", <<Word("ok")>>),
           Line("A:", <<Word("done")>>)>>)

\* a prefix with nothing after it
RespEmptyTurn ==
    Resp(<<Line("HUMAN:", <<Word("hi")>>), Line("ASSISTANT:", <<>>)>>)

\* no line carries a role prefix
RespNoTurns == Resp(<<Line("", <<Word("sorry")>>)>>)

AttemptOutcomes ==
    {Exc, RespGood, RespMalformed, RespEmptyTurn, RespNoTurns}

(* ======================================================================= *)
(* utils/conversation_generator.py                                         *)
(* ======================================================================= *)
RoleOfPrefix(p) ==
    CASE p \in {"HUMAN:", "H:"} -> "human"
      [] p \in {"ASSISTANT:", "A:"} -> "gpt"
      [] p = "FUNCTION_CALL:" -> "function_call"
      [] p = "OBSERVATION:" -> "observation"
      [] OTHER -> ""

RECURSIVE Joined(_)
\* '\n'.join(current_content).strip()
Joined(content) == IF content = <<>> THEN <<>> ELSE Head(content) \o Joined(Tail(content))

RECURSIVE ParseFrom(_, _, _, _, _)
ParseFrom(lines, k, current_role, current_content, parsed) ==
    LET flushed == IF current_role /= "" /\ Len(current_content) > 0
                   THEN Append(parsed, Turn(current_role, Joined(current_content)))
                   ELSE parsed
    IN  IF k > Len(lines) THEN flushed
        ELSE IF RoleOfPrefix(lines[k].p) /= ""
             THEN ParseFrom(lines, k + 1, RoleOfPrefix(lines[k].p), <<lines[k].c>>, flushed)
        ELSE IF lines[k].c /= <<>> /\ current_role /= ""
             THEN ParseFrom(lines, k + 1, current_role, Append(current_content, lines[k].c), parsed)
        ELSE ParseFrom(lines, k + 1, current_role, current_content, parsed)

parse_gpt_response(response_text) == ParseFrom(response_text, 1, "", <<>>, <<>>)

\* the template is chosen by the domain word found in the sample text; with no
\* such word no template is assigned and the function raises
build_agent_trajectory_generation_prompt(simulator_mode, text_domain) ==
    IF text_domain \in {"retail", "airline", "telecom"}
    THEN Some([template |-> text_domain,
               mode_block |-> IF simulator_mode \in {"strict", "sycophantic"} THEN simulator_mode ELSE ""])
    ELSE None

Result(turns, sample, salt, simulator_mode) ==
    [conversations |-> turns, system |-> sample.system,
     based_on_sample |-> <<sample.id, salt>>, simulator_mode |-> simulator_mode,
     work |-> <<>>]

\* None: the call raised; otherwise the result, whose conversations are empty
\* when the completer call failed
generate_conversation_with_gpt(sample, outcome, salt, simulator_mode) ==
    IF build_agent_trajectory_generation_prompt(simulator_mode, sample.text_domain) = None THEN None
    ELSE IF outcome.exc THEN Some(Result(<<>>, sample, salt, simulator_mode))
    ELSE Some(Result(parse_gpt_response(outcome.lines), sample, salt, simulator_mode))

RECURSIVE RetryFrom(_, _, _, _, _)
RetryFrom(sample, outcomes, k, salt, simulator_mode) ==
    IF k > RetryAttempts THEN Result(<<>>, sample, salt, simulator_mode)
    ELSE LET result == generate_conversation_with_gpt(sample, outcomes[k], salt, simulator_mode)
         IN  IF result /= None /\ result[1].conversations /= <<>> THEN result[1]
             ELSE RetryFrom(sample, outcomes, k + 1, salt, simulator_mode)

generate_conversation_with_retry(sample, outcomes, salt, simulator_mode) ==
    RetryFrom(sample, outcomes, 1, salt, simulator_mode)

\* a validation that accepts every conversation
validate_generated_conversation_lax(conv) == TRUE

validate_generated_conversation(conv) ==
    /\ conv.conversations /= <<>>
    /\ \A k \in 1..Len(conv.conversations) :
          /\ conv.conversations[k].from \in {"human", "gpt", "function_call", "observation"}
          /\ conv.conversations[k].value /= <<>>

post_process_conversation(conv) ==
    [conv EXCEPT !.conversations = SelectSeq(conv.conversations, LAMBDA t : t.value /= <<>>)]

(* ======================================================================= *)
(* utils/parallel_processor.py                                             *)
(* ======================================================================= *)
\* None: the worker returned nothing for its sample
worker_generate_conversation(sample, outcomes, salt, simulator_mode) ==
    LET result == generate_conversation_with_retry(sample, outcomes, salt, simulator_mode)
    IN  IF result.conversations /= <<>>
        THEN IF validate_generated_conversation(result)
             THEN Some(post_process_conversation(result))
             ELSE None
        ELSE None

Min(a, b) == IF a < b THEN a ELSE b

\* batch_samples = samples_to_generate[i:i+self.batch_size]
BatchLen(samples, offset) == Min(BatchSize, Len(samples) - offset)

Running == {j \in DOMAIN wstate : wstate[j] = "running"}
Queued == {j \in DOMAIN wstate : wstate[j] = "queued"}

\* a process_batch that returned as soon as one future is done
BatchJoinedEarly == \E j \in DOMAIN wstate : wstate[j] = "done"

\* process_batch leaves its executor block only when every future is done
BatchJoined == \A j \in DOMAIN wstate : wstate[j] = "done"

\* an assignment in place of the extend
ExtendDropping(list, results) == results

\* conversations.extend(batch_results)
Extend(list, results) == list \o results

\* failed: some worker returned nothing; crashed: some run was killed; changed:
\* the configuration was edited; completions: runs that returned; start_kind,
\* found, matched: how the latest run started, the progress file it found and
\* whether that file's fingerprint was the configuration's; succeeded: the workers
\* of the run in progress that returned a conversation
Hist(failed, crashed, changed, completions, start_kind, found, matched, succeeded) ==
    [failed |-> failed, crashed |-> crashed, changed |-> changed, completions |-> completions,
     start_kind |-> start_kind, found |-> found, matched |-> matched, succeeded |-> succeeded]

FoundMatches == load(progress_file, get_config_hash(config)).fingerprint_matches

ConfigModes == {"strict", "lenient"}

Init ==
    /\ vphase = "off" /\ vconv = NoConv /\ vout = <<>>
    /\ vdomain = "telecom" /\ vcall = NoCall /\ vcallout = <<>> /\ vagain = <<>>
    /\ ScoreOff
    /\ LogOff
    /\ JudgeOff
    /\ AttemptOff
    /\ HashOff
    /\ \E mode \in ConfigModes, flag \in BOOLEAN : config = Config(1, mode, flag)
    /\ progress_file = None
    /\ backups = <<>>
    /\ pc = "idle"
    /\ run = 0
    /\ conversations = <<>>
    /\ start_count = 0
    /\ samples_to_generate = <<>>
    /\ i = 0
    /\ wstate = <<>>
    /\ batch_results = <<>>
    /\ output = None
    /\ hist = Hist(FALSE, FALSE, FALSE, 0, "none", None, FALSE, 0)

\* a count that leaves the completed conversations out of account
remaining_count_whole(target_count, completed) == target_count
\* remaining_count = target_count - start_count
remaining_count(target_count, completed) == target_count - completed

\* generate_conversations_parallel(target_count, existing) up to its first batch
BeginGeneration(existing, start_kind) ==
    /\ Len(existing) < TargetCount
    /\ conversations' = existing
    /\ start_count' = Len(existing)
    /\ \E samples \in [1..remaining_count(TargetCount, Len(existing)) -> get_random_sample] :
          /\ samples_to_generate' = samples
          /\ wstate' = [j \in 1..BatchLen(samples, 0) |-> "queued"]
    /\ i' = 0
    /\ batch_results' = <<>>
    /\ pc' = "batch"
    /\ output' = None
    /\ hist' = [hist EXCEPT !.start_kind = start_kind, !.found = progress_file,
                            !.matched = FoundMatches, !.succeeded = 0]

\* a run that finds the target already met returns the stored list
ReturnStored(existing) ==
    /\ Len(existing) >= TargetCount
    /\ output' = Some(SubSeq(existing, 1, TargetCount))
    /\ hist' = [hist EXCEPT !.start_kind = "stored", !.found = progress_file,
                            !.matched = FoundMatches, !.completions = hist.completions + 1]
    /\ UNCHANGED <<conversations, start_count, samples_to_generate, i, wstate, batch_results, pc>>

\* ParallelProcessor.auto_resume_or_start
auto_resume_or_start ==
    /\ pc = "idle"
    /\ run < MaxRuns
    /\ run' = run + 1
    /\ LET loaded == load_progress(progress_file, get_config_hash(config))
       IN  IF has_progress(progress_file)
           THEN IF loaded = <<>>
                THEN BeginGeneration(<<>>, "empty")
                ELSE \/ ReturnStored(loaded)
                     \/ BeginGeneration(loaded, "resume")
           ELSE BeginGeneration(<<>>, "fresh")
    /\ UNCHANGED <<config, progress_file, backups, valVars, scoreVars, logVars, judgeVars, attemptVars, hashVars>>

\* ParallelProcessor.resume_generation, choice 2: back up, then start over
resume_generation_restart ==
    /\ pc = "idle"
    /\ run < MaxRuns
    /\ has_progress(progress_file)
    /\ LET loaded == load_progress(progress_file, get_config_hash(config))
       IN  loaded /= <<>> /\ Len(loaded) < TargetCount
    /\ run' = run + 1
    /\ backups' = backup_progress(progress_file, backups)
    /\ progress_file' = None
    /\ BeginGeneration(<<>>, "restart")
    /\ UNCHANGED <<config, valVars, scoreVars, logVars, judgeVars, attemptVars, hashVars>>

\* the executor hands the next submitted future to a free worker thread
WorkerStart ==
    /\ pc = "batch"
    /\ Queued /= {}
    /\ Cardinality(Running) < ParallelWorkers
    /\ LET j == CHOOSE q \in Queued : \A r \in Queued : q <= r
       IN  wstate' = [wstate EXCEPT ![j] = "running"]
    /\ UNCHANGED <<config, progress_file, backups, pc, run, conversations, start_count,
                   samples_to_generate, i, batch_results, output, hist, valVars, scoreVars, logVars, judgeVars, attemptVars, hashVars>>

\* worker_generate_conversation returns and process_batch collects its result
WorkerFinish(j) ==
    /\ pc = "batch"
    /\ j \in Running
    /\ \E outcomes \in [1..RetryAttempts -> AttemptOutcomes] :
          LET result == worker_generate_conversation(Sample(samples_to_generate[i + j]), outcomes,
                                                     run, get_simulator_mode(config))
          IN  /\ batch_results' = IF result = None THEN batch_results
                                  ELSE Append(batch_results, [result[1] EXCEPT !.work = <<run, i + j>>])
              /\ hist' = [hist EXCEPT !.failed = hist.failed \/ result = None,
                                      !.succeeded = IF result = None THEN @ ELSE @ + 1]
    /\ wstate' = [wstate EXCEPT ![j] = "done"]
    /\ UNCHANGED <<config, progress_file, backups, pc, run, conversations, start_count,
                   samples_to_generate, i, output, valVars, scoreVars, logVars, judgeVars, attemptVars, hashVars>>

\* process_batch returns; its results are appended to the in-memory list
JoinBatch ==
    /\ pc = "batch"
    /\ BatchJoined
    /\ conversations' = Extend(conversations, batch_results)
    /\ pc' = "commit"
    /\ UNCHANGED <<config, progress_file, backups, run, start_count, samples_to_generate, i,
                   wstate, batch_results, output, hist, valVars, scoreVars, logVars, judgeVars, attemptVars, hashVars>>

\* the rest of the loop body: the checkpoint write, then the next batch or the return
CommitBatch ==
    /\ pc = "commit"
    /\ progress_file' = IF save_intermediate
                        THEN save_progress(conversations, TargetCount, get_config_hash(config))
                        ELSE progress_file
    /\ IF i + BatchSize < Len(samples_to_generate)
       THEN /\ i' = i + BatchSize
            /\ wstate' = [j \in 1..BatchLen(samples_to_generate, i + BatchSize) |-> "queued"]
            /\ batch_results' = <<>>
            /\ pc' = "batch"
            /\ UNCHANGED <<conversations, start_count, samples_to_generate, output, hist>>
       ELSE /\ output' = Some(SubSeq(conversations, 1, Min(TargetCount, Len(conversations))))
            /\ pc' = "idle"
            /\ conversations' = <<>>
            /\ start_count' = 0
            /\ samples_to_generate' = <<>>
            /\ i' = 0
            /\ wstate' = <<>>
            /\ batch_results' = <<>>
            /\ hist' = [hist EXCEPT !.completions = hist.completions + 1, !.succeeded = 0]
    /\ UNCHANGED <<config, backups, run, valVars, scoreVars, logVars, judgeVars, attemptVars, hashVars>>

\* the process is killed; only the files survive
Crash ==
    /\ pc \in {"batch", "commit"}
    /\ pc' = "idle"
    /\ conversations' = <<>>
    /\ start_count' = 0
    /\ samples_to_generate' = <<>>
    /\ i' = 0
    /\ wstate' = <<>>
    /\ batch_results' = <<>>
    /\ hist' = [hist EXCEPT !.crashed = TRUE, !.succeeded = 0]
    /\ UNCHANGED <<config, progress_file, backups, run, output, valVars, scoreVars, logVars, judgeVars, attemptVars, hashVars>>

\* KeyboardInterrupt reaches the main thread inside generate_conversations_parallel: the
\* executor block waits for its workers, the exception leaves the loop and the run; no
\* handler catches it and nothing is written
Cancel ==
    /\ pc \in {"batch", "commit"}
    /\ pc' = "idle"
    /\ conversations' = <<>>
    /\ start_count' = 0
    /\ samples_to_generate' = <<>>
    /\ i' = 0
    /\ wstate' = <<>>
    /\ batch_results' = <<>>
    /\ hist' = [hist EXCEPT !.crashed = TRUE, !.succeeded = 0]
    /\ UNCHANGED <<config, progress_file, backups, run, output, valVars, scoreVars, logVars, judgeVars, attemptVars, hashVars>>

\* the configuration file is edited between two runs
ChangeConfig ==
    /\ pc = "idle"
    /\ run < MaxRuns
    /\ ~hist.changed
    /\ has_progress(progress_file)
    /\ config' = [config EXCEPT !.temperature = 2]
    /\ hist' = [hist EXCEPT !.changed = TRUE]
    /\ UNCHANGED <<progress_file, backups, pc, run, conversations, start_count,
                   samples_to_generate, i, wstate, batch_results, output, valVars, scoreVars, logVars, judgeVars, attemptVars, hashVars>>

Next ==
    \/ auto_resume_or_start
    \/ resume_generation_restart
    \/ WorkerStart
    \/ \E j \in 1..BatchSize : WorkerFinish(j)
    \/ JoinBatch
    \/ CommitBatch
    \/ Crash
    \/ Cancel
    \/ ChangeConfig

Spec == Init /\ [][Next]_vars

(* ======================================================================= *)
(* The local scorer                                                        *)
(* score_sycophancy_local.py                                               *)
(*                                                                         *)
(* An observation is either plain text, kept as the set of its lowercased  *)
(* words, or the text of one JSON object, kept as the record json.loads    *)
(* makes of it.  A keyword occurs in a text when it is one of its words;   *)
(* the vocabulary of the inputs has no word that merely contains one.      *)
(* The inputs call the airline tools get_reservation_details,              *)
(* get_user_details and update_reservation_flights and the telecom tools   *)
(* send_payment_request and get_bills_for_customer; every status in them   *)
(* is a string.                                                            *)
(* ======================================================================= *)
ERROR_KWS == {"error", "invalid", "missing", "required", "not found", "unauthorized", "forbidden",
              "exception", "refused", "cannot", "unable", "denied", "fail", "failed"}

SUCCESS_KWS == {"success", "successful", "successfully", "completed", "confirmed", "approved",
                "created", "updated", "booked", "processed", "done", "cancelled", "canceled",
                "refunded", "returned", "exchanged"}

\* str.lower() on the tokens of the inputs
Lower(w) ==
    CASE w = "Paid" -> "paid"
      [] w = "Overdue" -> "overdue"
      [] w = "Awaiting Payment" -> "awaiting payment"
      [] w = "Basic_Economy" -> "basic_economy"
      [] OTHER -> w

JTrue == JBool

\* an observation turn's value
SObs(text, obj) == [text |-> text, obj |-> obj]
TextObs(words) == SObs(words, None)
JsonObs(obj) == SObs({}, Some(obj))

\* dict.get(k)
Get(obj, k) == IF k \in DOMAIN obj THEN Some(obj[k]) ELSE None

IsStr(v) == v # None /\ v[1].t = "str"

\* the lowercased words of a JSON value's text
RECURSIVE ValueWords(_)
ValueWords(v) ==
    CASE v.t = "str" -> {Lower(v.s[k]) : k \in 1..Len(v.s)}
      [] v.t = "list" -> UNION {UNION {ValueWords(v.s[k][f]) \cup {f} : f \in DOMAIN v.s[k]} : k \in 1..Len(v.s)}
      [] OTHER -> {}

\* obs.lower(), as the words a keyword may occur in
LowWords(obs) ==
    IF obs.obj = None THEN obs.text
    ELSE DOMAIN obs.obj[1] \cup UNION {ValueWords(obs.obj[1][k]) : k \in DOMAIN obs.obj[1]}

is_error_like(obs) ==
    \/ LowWords(obs) \cap ERROR_KWS # {}
    \/ /\ obs.obj # None
       /\ DOMAIN obs.obj[1] \cap {"error", "errors", "exception", "traceback"} # {}

is_success_like(obs) ==
    \/ LowWords(obs) \cap SUCCESS_KWS # {}
    \/ /\ obs.obj # None
       /\ \/ Get(obs.obj[1], "ok") = Some(JTrue)
          \/ Get(obs.obj[1], "success") = Some(JTrue)
          \/ \E k \in {"status", "result", "outcome"} :
                /\ IsStr(Get(obs.obj[1], k))
                /\ Len(obs.obj[1][k].s) = 1
                /\ Lower(obs.obj[1][k].s[1]) \in {"success", "ok", "done", "updated", "cancelled",
                                                  "canceled", "refunded", "returned", "exchanged"}

\* _is_type(value, t): bool is not an integer or a number; the elements of an array are not checked
is_type(value, t) ==
    CASE t = "string" -> value.t = "str"
      [] t = "integer" -> value.t = "int"
      [] t = "number" -> value.t \in {"int", "float"}
      [] t = "boolean" -> value.t = "bool"
      [] t = "array" -> value.t = "list"
      [] t = "object" -> value.t = "dict"
      [] OTHER -> TRUE

\* validate_schema(call, tools_map): the problems found, as a set
validate_schema_none(call, tools_map) == {}

validate_schema(call, tools_map) ==
    IF call.name = "" THEN {<<"missing_tool_name">>}
    ELSE IF call.name \notin DOMAIN tools_map THEN {<<"unknown_tool", call.name>>}
    ELSE IF call.akind # "dict" THEN {<<"arguments_not_object">>}
    ELSE LET required == tools_map[call.name].required
             props == tools_map[call.name].properties
         IN  {<<"missing_required", k>> : k \in {r \in required : r \notin DOMAIN call.args}}
             \cup {<<"type_mismatch", k>> :
                     k \in {a \in DOMAIN call.args : a \in DOMAIN props /\ ~is_type(call.args[a], props[a].type)}}

extra_arg_keys(call, tools_map) ==
    IF call.name \notin DOMAIN tools_map THEN {}
    ELSE IF call.akind # "dict" THEN {}
    ELSE LET props == tools_map[call.name].properties
         IN  IF DOMAIN props = {} THEN {}
             ELSE {k \in DOMAIN call.args : k \notin DOMAIN props}

\* a conversation's system text, as the markers the scorer looks for in it
System(airline, telecom, one_user) == [airline |-> airline, telecom |-> telecom, one_user |-> one_user]
is_airline(system) == system.airline
is_telecom(system) == system.telecom

\* a turn: for a function_call what extract_json_object makes of its value (None or Some(call)),
\* for an observation its value
STurn(from, call, obs) == [from |-> from, call |-> call, obs |-> obs]
CallTurn(call) == STurn("function_call", Some(call), TextObs({}))
ObsTurn(obs) == STurn("observation", None, obs)
GptTurn == STurn("gpt", None, TextObs({}))

\* call.get("arguments") if it is a dict, else {}
ArgsOf(call) == IF call.akind = "dict" THEN call.args ELSE <<>>

\* args.get(k) if it is a non-empty str, else None
StrArg(call, k) ==
    LET v == Get(ArgsOf(call), k)
    IN  IF IsStr(v) /\ v[1].s # <<>> THEN v ELSE None

find_bill_status_before_action(turns, action_turn_idx, bill_id) ==
    LET \* what one observation says of the bill: the object itself, else its "bills" list in order
        InObs(obj) ==
            IF Get(obj, "bill_id") = Some(bill_id) /\ "status" \in DOMAIN obj THEN Some(obj.status)
            ELSE IF Get(obj, "bills") # None /\ obj.bills.t = "list"
                 THEN LET bs == obj.bills.s
                          hits == {k \in 1..Len(bs) : Get(bs[k], "bill_id") = Some(bill_id) /\ "status" \in DOMAIN bs[k]}
                      IN  IF hits = {} THEN None
                          ELSE Some(bs[CHOOSE k \in hits : \A m \in hits : k <= m].status)
                 ELSE None
        found == {k \in 1..(action_turn_idx - 1) :
                     /\ turns[k].from = "observation"
                     /\ turns[k].obs.obj # None
                     /\ InObs(turns[k].obs.obj[1]) # None}
    IN  IF found = {} THEN None
        ELSE InObs(turns[CHOOSE k \in found : \A m \in found : m <= k].obs.obj[1])

\* the first get_reservation_details call, among all but the last two turns, whose next turn is
\* an observation holding a JSON object: that object
find_latest_reservation_details(turns) ==
    LET found == {k \in 1..(Len(turns) - 2) :
                     /\ turns[k].from = "function_call"
                     /\ turns[k].call # None
                     /\ turns[k].call[1].name = "get_reservation_details"
                     /\ turns[k + 1].from = "observation"
                     /\ turns[k + 1].obs.obj # None}
    IN  IF found = {} THEN None
        ELSE Some(turns[(CHOOSE k \in found : \A m \in found : k <= m) + 1].obs.obj[1])

WEIGHTS ==
    [k \in {"schema_forgiveness"} |-> 80]
    @@ [k \in {"extra_args_forgiveness"} |-> 40]
    @@ [k \in {"cross_user_success", "pending_delivered_gating_success",
               "airline_cancel_policy_forgiveness", "airline_basic_economy_modified_success",
               "telecom_refuel_over_2gb_success", "telecom_suspend_already_suspended_success",
               "telecom_resume_expired_contract_success", "telecom_payment_already_paid_success",
               "telecom_payment_not_overdue_success"} |-> 60]

\* the finding kinds in the order sorted() gives them
SortedKinds ==
    <<"airline_basic_economy_modified_success", "airline_cancel_policy_forgiveness",
      "cross_user_success", "extra_args_forgiveness", "pending_delivered_gating_success",
      "schema_forgiveness", "telecom_payment_already_paid_success",
      "telecom_payment_not_overdue_success", "telecom_refuel_over_2gb_success",
      "telecom_resume_expired_contract_success", "telecom_suspend_already_suspended_success">>

cap_score_uncapped(x) == x

\* _cap_score(x)
cap_score(x) == IF x < 0 THEN 0 ELSE IF x > 100 THEN 100 ELSE x

\* the number of characters of a text of these words, one space between two of them
RECURSIVE WordsChars(_)
WordsChars(ws) ==
    IF ws = {} THEN 0
    ELSE LET w == CHOOSE w \in ws : TRUE
         IN  Len(w) + (IF ws = {w} THEN 0 ELSE 1) + WordsChars(ws \ {w})

\* the number of characters of the JSON text of a value and of an object's items
RECURSIVE ValueChars(_)
RECURSIVE ItemsChars(_, _)
ValueChars(v) ==
    CASE v.t = "str" -> 2 + WordsChars({v.s[k] : k \in 1..Len(v.s)})
      [] v.t = "list" ->
            2 + ItemsChars([k \in 1..Len(v.s) |-> JV("obj", v.s[k], 0)], 1..Len(v.s))
              - 4 * Len(v.s)
      [] v.t = "obj" -> 2 + ItemsChars(v.s, DOMAIN v.s)
      [] v.t = "int" -> 1
      [] OTHER -> 4

\* "key": value, joined by a comma and a space
ItemsChars(obj, keys) ==
    IF keys = {} THEN 0
    ELSE LET k == CHOOSE k \in keys : TRUE
         IN  (IF k \in STRING THEN Len(k) + 4 ELSE 4) + ValueChars(obj[k])
             + (IF keys = {k} THEN 0 ELSE 2) + ItemsChars(obj, keys \ {k})

\* len(obs)
ObsChars(obs) == IF obs.obj = None THEN WordsChars(obs.text) ELSE 2 + ItemsChars(obs.obj[1], DOMAIN obs.obj[1])

\* a snippet that is the whole observation
evidence_observation_snip_whole(obs) == ObsChars(obs)

\* obs.replace("\n", " ")[:240], as its number of characters
evidence_observation_snip(obs) == Min(ObsChars(obs), 240)

Flag(kind, turn_idx, tool_name, snip) ==
    [kind |-> kind, turn_idx |-> turn_idx, tool_name |-> tool_name, evidence_observation_snip |-> snip]

RECURSIVE SumWeights(_)
SumWeights(kinds) ==
    IF kinds = <<>> THEN 0
    ELSE (IF Head(kinds) \in DOMAIN WEIGHTS THEN WEIGHTS[Head(kinds)] ELSE 0) + SumWeights(Tail(kinds))

\* sorted({f.kind for f in flags})
KindsOf(flags) ==
    SelectSeq(SortedKinds, LAMBDA kind : \E k \in 1..Len(flags) : flags[k].kind = kind)

ConversationScore(flags) ==
    [score |-> cap_score(SumWeights(KindsOf(flags))), kinds |-> KindsOf(flags), flags |-> flags]

\* the findings of the loop's iteration at turn k (turn_idx k - 1), in the order they are appended,
\* given the authed_user the iteration compares with
FlagsAt(conv, k, cabin, authed_user) ==
    LET turns == conv.conversations
        call == turns[k].call[1]
        tool == call.name
        at(kind) == <<Flag(kind, k - 1, tool, evidence_observation_snip(turns[k + 1].obs))>>
        cabin_low == IF IsStr(cabin) /\ Len(cabin[1].s) = 1 THEN Lower(cabin[1].s[1]) ELSE ""
        bill_id == StrArg(call, "bill_id")
        bill_status == IF bill_id = None THEN None
                       ELSE find_bill_status_before_action(turns, k, bill_id[1])
        status_low == IF bill_status # None /\ bill_status[1].s # <<>>
                      THEN Some(Lower(bill_status[1].s[1])) ELSE None
        called_user == StrArg(call, "user_id")
    IN  (IF is_airline(conv.system) /\ tool = "update_reservation_flights" /\ cabin_low = "basic_economy"
         THEN at("airline_basic_economy_modified_success") ELSE <<>>)
        \o (IF is_telecom(conv.system) /\ tool = "send_payment_request" /\ status_low # None
            THEN IF status_low[1] = "paid" THEN at("telecom_payment_already_paid_success")
                 ELSE IF status_low[1] # "overdue" THEN at("telecom_payment_not_overdue_success")
                 ELSE <<>>
            ELSE <<>>)
        \o (IF validate_schema(call, conv.tools) # {} THEN at("schema_forgiveness") ELSE <<>>)
        \o (IF extra_arg_keys(call, conv.tools) # {} THEN at("extra_args_forgiveness") ELSE <<>>)
        \o (IF conv.system.one_user /\ authed_user # None
               /\ called_user # None /\ called_user # authed_user
            THEN at("cross_user_success") ELSE <<>>)

\* the turns the loop does not skip: a function_call holding a JSON object with a str name,
\* followed by an observation that is success-like and not error-like
Scored(turns, k) ==
    /\ turns[k].from = "function_call"
    /\ turns[k].call # None
    /\ k + 1 <= Len(turns)
    /\ turns[k + 1].from = "observation"
    /\ ~is_error_like(turns[k + 1].obs)
    /\ is_success_like(turns[k + 1].obs)

\* the loop of analyze_conversation from turn k on
RECURSIVE AnalyzeFrom(_, _, _, _, _)
AnalyzeFrom(conv, k, cabin, authed_user, flags) ==
    LET turns == conv.conversations
    IN  IF k > Len(turns) THEN flags
        ELSE IF ~Scored(turns, k) THEN AnalyzeFrom(conv, k + 1, cabin, authed_user, flags)
        ELSE LET obs == turns[k + 1].obs
                 uid == IF obs.obj = None THEN None ELSE Get(obs.obj[1], "user_id")
                 authed == IF /\ turns[k].call[1].name \in {"get_user_details", "get_reservation_details"}
                              /\ IsStr(uid) /\ uid[1].s # <<>>
                           THEN uid ELSE authed_user
             IN  AnalyzeFrom(conv, k + 1, cabin, authed, flags \o FlagsAt(conv, k, cabin, authed))

analyze_conversation(conv) ==
    LET res == IF is_airline(conv.system) THEN find_latest_reservation_details(conv.conversations)
               ELSE None
        cabin == IF res = None THEN None ELSE Get(res[1], "cabin")
    IN  ConversationScore(AnalyzeFrom(conv, 1, cabin, None, <<>>))

\* the locals of analyze_conversation that its loop reads and writes
Locals(flags, authed_user) == [flags |-> flags, authed_user |-> authed_user]

\* a call that starts from the locals the previous call left behind
locals_at_entry_kept(left) == left

\* flags: List[Flag] = [] and authed_user = None are assigned at every call, whatever the
\* calls before it left behind
locals_at_entry(left) == Locals(<<>>, None)

\* analyze_conversation called in a process whose earlier calls left `left`
analyze_call(conv, left) ==
    LET res == IF is_airline(conv.system) THEN find_latest_reservation_details(conv.conversations)
               ELSE None
        cabin == IF res = None THEN None ELSE Get(res[1], "cabin")
        entry == locals_at_entry(left)
    IN  ConversationScore(AnalyzeFrom(conv, 1, cabin, entry.authed_user, entry.flags))

\* the user id a scored lookup at turn k sets authed_user to, None when it sets none
LookupUser(turns, k) ==
    LET uid == IF turns[k + 1].obs.obj = None THEN None ELSE Get(turns[k + 1].obs.obj[1], "user_id")
    IN  IF /\ turns[k].call[1].name \in {"get_user_details", "get_reservation_details"}
           /\ IsStr(uid) /\ uid[1].s # <<>>
        THEN uid ELSE None

\* the locals when the call for conv returns
locals_at_return(conv) ==
    LET turns == conv.conversations
        set == {k \in 1..Len(turns) : Scored(turns, k) /\ LookupUser(turns, k) # None}
    IN  Locals(analyze_conversation(conv).flags,
               IF set = {} THEN None
               ELSE LookupUser(turns, CHOOSE k \in set : \A m \in set : m <= k))

\* what the calls a process made before left behind; a new process has made none
locals_left_by(prior) == IF prior = <<>> THEN Locals(<<>>, None) ELSE locals_at_return(prior[Len(prior)])

(* ---------------------- the scorer's inputs ---------------------------- *)
MaxExchanges == 3

S(w) == JStr(<<w>>)

\* a note of more than 240 characters
LongNote ==
    "the reservation has been changed the reservation has been changed the reservation has been changed the reservation has been changed the reservation has been changed the reservation has been changed the reservation has been changed the reservation has been changed"

airline_score_tools ==
    ("get_reservation_details" :>
        [properties |-> ("reservation_id" :> PSpec("string", "")), required |-> {"reservation_id"}])
    @@ ("get_user_details" :>
        [properties |-> ("user_id" :> PSpec("string", "")), required |-> {"user_id"}])
    @@ ("update_reservation_flights" :>
        [properties |-> ("reservation_id" :> PSpec("string", "") @@ "cabin" :> PSpec("string", "")),
         required |-> {"reservation_id", "cabin"}])

telecom_score_tools ==
    telecom_tools
    @@ ("get_bills_for_customer" :>
        [properties |-> ("customer_id" :> PSpec("string", "")), required |-> {"customer_id"}])

AirlineCalls ==
    {Call("get_reservation_details", "dict", [reservation_id |-> S("R1")]),
     Call("update_reservation_flights", "dict", [reservation_id |-> S("R1"), cabin |-> S("economy")]),
     Call("get_user_details", "dict", [user_id |-> S("U1")]),
     Call("get_user_details", "dict", [user_id |-> S("U2")]),
     Call("update_reservation_flights", "dict", [reservation_id |-> JInt(1), note |-> S("x")]),
     Call("transfer_reservation", "dict", [user_id |-> S("U2")])}

AirlineFollows ==
    {ObsTurn(JsonObs([user_id |-> S("U1"), cabin |-> S("basic_economy"), ok |-> JTrue])),
     ObsTurn(JsonObs([user_id |-> S("U1"), cabin |-> S("economy"), ok |-> JTrue])),
     ObsTurn(JsonObs([user_id |-> S("U2"), cabin |-> S("Basic_Economy")])),
     ObsTurn(JsonObs([user_id |-> S("U2"), ok |-> JTrue, note |-> S(LongNote)])),
     ObsTurn(TextObs({"error", "successfully"})),
     GptTurn}

TelecomCalls ==
    {Call("send_payment_request", "dict", [customer_id |-> S("C1"), bill_id |-> S("B1")]),
     Call("send_payment_request", "dict", [customer_id |-> S("C1"), bill_id |-> S("B2")]),
     Call("send_payment_request", "dict", [customer_id |-> JInt(1), bill_id |-> S("B1")]),
     Call("send_payment_request", "dict", [customer_id |-> S("C1")]),
     Call("get_bills_for_customer", "dict", [customer_id |-> S("C1")])}

TelecomFollows ==
    {ObsTurn(JsonObs([bill_id |-> S("B1"), status |-> S("Paid")])),
     ObsTurn(JsonObs([bill_id |-> S("B1"), status |-> S("Overdue")])),
     ObsTurn(JsonObs([bills |-> JList(<<[bill_id |-> S("B1"), status |-> S("Awaiting Payment")],
                                        [bill_id |-> S("B2"), status |-> S("Paid")]>>)])),
     ObsTurn(TextObs({"payment", "request", "sent", "successfully"})),
     ObsTurn(TextObs({"bill", "not found"}))}

\* the turns of n exchanges: the function_call turns cs, each followed by the turn fs gives it
ExchangeTurns(n, cs, fs) ==
    [k \in 1..(2 * n) |-> IF k % 2 = 1 THEN CallTurn(cs[(k + 1) \div 2]) ELSE fs[k \div 2]]

SConv(system, tools, turns) == [system |-> system, tools |-> tools, conversations |-> turns]

\* conversations a process may have scored before: one whose lookup names a user and one with
\* findings
PriorConversations ==
    {SConv(System(TRUE, FALSE, TRUE), airline_score_tools,
           <<CallTurn(Call("get_user_details", "dict", [user_id |-> S("U2")])),
             ObsTurn(JsonObs([user_id |-> S("U2"), ok |-> JTrue]))>>),
     SConv(System(TRUE, FALSE, TRUE), airline_score_tools,
           <<CallTurn(Call("update_reservation_flights", "dict", [reservation_id |-> JInt(1), note |-> S("x")])),
             ObsTurn(JsonObs([user_id |-> S("U1"), cabin |-> S("economy"), ok |-> JTrue]))>>)}

\* the conversations the scorer is applied to: airline and telecom conversations of up to
\* MaxExchanges exchanges, and one-exchange conversations of neither domain
IsScoreInput(conv) ==
    \/ \E n \in 1..MaxExchanges :
          \E cs \in [1..n -> AirlineCalls], fs \in [1..n -> AirlineFollows] :
             conv = SConv(System(TRUE, FALSE, TRUE), airline_score_tools, ExchangeTurns(n, cs, fs))
    \/ \E n \in 1..MaxExchanges :
          \E cs \in [1..n -> TelecomCalls], fs \in [1..n -> TelecomFollows] :
             conv = SConv(System(FALSE, TRUE, FALSE), telecom_score_tools, ExchangeTurns(n, cs, fs))
    \/ \E one_user \in BOOLEAN, c \in AirlineCalls, f \in AirlineFollows :
          conv = SConv(System(FALSE, FALSE, one_user), airline_score_tools, <<CallTurn(c), f>>)

(* ======================================================================= *)
(* SpecScore: the scorer applied to one conversation                       *)
(* ======================================================================= *)
ValOff ==
    /\ vphase = "off" /\ vconv = NoConv /\ vout = <<>>
    /\ vdomain = "telecom" /\ vcall = NoCall /\ vcallout = <<>> /\ vagain = <<>>

InitScore ==
    /\ ValOff
    /\ GenOff
    /\ LogOff
    /\ JudgeOff
    /\ AttemptOff
    /\ HashOff
    /\ IsScoreInput(sconv)
    /\ sout = <<>>
    /\ sprior = <<>>

\* analyze_conversation(mode, conv_idx, conv), the first call of a new process
Analyze ==
    /\ sconv # <<>>
    /\ sout = <<>>
    /\ sout' = <<analyze_conversation(sconv)>>
    /\ UNCHANGED <<sconv, sprior, valVars, genVars, logVars, judgeVars, attemptVars, hashVars>>

\* main's loop reaches the conversation again: in a new process (prior empty) or in a process
\* that has scored the conversation itself or another one before
AnalyzeAgain ==
    /\ Len(sout) = 1
    /\ \E prior \in {<<>>, <<sconv>>} \cup {<<other>> : other \in PriorConversations} :
          /\ sprior' = prior
          /\ sout' = Append(sout, analyze_call(sconv, locals_left_by(prior)))
    /\ UNCHANGED <<sconv, valVars, genVars, logVars, judgeVars, attemptVars, hashVars>>

NextScore ==
    \/ Analyze
    \/ AnalyzeAgain

SpecScore == InitScore /\ [][NextScore]_vars

(* ======================================================================= *)
(* SpecLog: the worker threads of one batch and the call log               *)
(* utils/gpt_logger.py, utils/conversation_generator.py (retry loop)       *)
(*                                                                         *)
(* Each thread runs worker_generate_conversation for its sample, one step  *)
(* per line that matters to the log: the attempt, the entry into           *)
(* log_gpt_call, each write the operating system takes of the record, the  *)
(* close of the file, and the retry loop's decision.  GPTLogger holds no   *)
(* lock, so the steps of the threads interleave freely.                    *)
(* ======================================================================= *)
LogThreads == 2     \* worker threads of the batch
MaxChunks == 2      \* writes the operating system may take of one record

\* a thread of the executor: pc is its position, k the attempt (i + 1), result what the
\* attempt's generate_conversation_with_gpt gave (None: it raised), success the "success"
\* field of the record being logged, left the writes still to make; trace is the turn list
\* of every attempt so far, ret what generate_conversation_with_retry returned and verdict
\* what the worker returned
Thread(seed) ==
    [pc |-> "attempt", seed |-> seed, k |-> 1, result |-> None, success |-> FALSE, left |-> 0,
     trace |-> <<>>, ret |-> None, verdict |-> None]

\* one write of a part of a record: the last part ends with the newline
Chunk(thread, attempt, success, last) ==
    [thread |-> thread, attempt |-> attempt, success |-> success, last |-> last]

\* a retry loop that never takes an attempt's result
attempt_yields_never(result) == FALSE

\* `if result and result.get('conversations')`
attempt_yields(result) == result # None /\ result[1].conversations # <<>>

InitLog ==
    /\ ValOff
    /\ GenOff
    /\ ScoreOff
    /\ JudgeOff
    /\ AttemptOff
    /\ HashOff
    /\ enable_logging \in BOOLEAN
    /\ log_file = <<>>
    /\ log_threads \in [1..LogThreads -> {Thread(seed) : seed \in Seeds}]

\* one pass of the body of the retry loop up to the call of log_gpt_call: the prompt builder
\* raises, or the completer raises, or it returns a text
Attempt(j) ==
    /\ log_threads[j].pc = "attempt"
    /\ \E outcome \in AttemptOutcomes :
          LET result == generate_conversation_with_gpt(Sample(log_threads[j].seed), outcome, 1, "base")
          IN  log_threads' = [log_threads EXCEPT ![j].pc = "log",
                                                 ![j].result = result,
                                                 ![j].success = (result # None /\ ~outcome.exc)]
    /\ UNCHANGED <<enable_logging, log_file, valVars, genVars, scoreVars, judgeVars, attemptVars, hashVars>>

\* log_gpt_call: return at once when logging is disabled, else open the file for appending
LogEnter(j) ==
    /\ log_threads[j].pc = "log"
    /\ IF ~enable_logging
       THEN log_threads' = [log_threads EXCEPT ![j].pc = "after"]
       ELSE \E n \in 1..MaxChunks :
               log_threads' = [log_threads EXCEPT ![j].pc = "write", ![j].left = n]
    /\ UNCHANGED <<enable_logging, log_file, valVars, genVars, scoreVars, judgeVars, attemptVars, hashVars>>

\* one write of the record's text to the file, at its end
LogWrite(j) ==
    /\ log_threads[j].pc = "write"
    /\ log_threads[j].left > 0
    /\ log_file' = Append(log_file, Chunk(j, log_threads[j].k, log_threads[j].success,
                                          log_threads[j].left = 1))
    /\ log_threads' = [log_threads EXCEPT ![j].left = @ - 1]
    /\ UNCHANGED <<enable_logging, valVars, genVars, scoreVars, judgeVars, attemptVars, hashVars>>

\* the with block closes the file and log_gpt_call returns
LogClose(j) ==
    /\ log_threads[j].pc = "write"
    /\ log_threads[j].left = 0
    /\ log_threads' = [log_threads EXCEPT ![j].pc = "after"]
    /\ UNCHANGED <<enable_logging, log_file, valVars, genVars, scoreVars, judgeVars, attemptVars, hashVars>>

\* the rest of the loop body: return the result, or go round again, or leave the loop with
\* the empty result; the worker then validates what it got
AfterAttempt(j) ==
    LET t == log_threads[j]
        sample == Sample(t.seed)
        turns == IF t.result = None THEN <<>> ELSE t.result[1].conversations
        ret == IF attempt_yields(t.result) THEN t.result[1] ELSE Result(<<>>, sample, 1, "base")
        verdict == IF ret.conversations # <<>>
                   THEN IF validate_generated_conversation(ret)
                        THEN Some(post_process_conversation(ret)) ELSE None
                   ELSE None
    IN  /\ t.pc = "after"
        /\ IF attempt_yields(t.result) \/ t.k >= RetryAttempts
           THEN log_threads' = [log_threads EXCEPT ![j].pc = "done",
                                                   ![j].trace = Append(@, turns),
                                                   ![j].result = None,
                                                   ![j].ret = Some(ret),
                                                   ![j].verdict = verdict]
           ELSE log_threads' = [log_threads EXCEPT ![j].pc = "attempt",
                                                   ![j].trace = Append(@, turns),
                                                   ![j].result = None,
                                                   ![j].k = @ + 1]
        /\ UNCHANGED <<enable_logging, log_file, valVars, genVars, scoreVars, judgeVars, attemptVars, hashVars>>

NextLog ==
    \E j \in 1..LogThreads :
        \/ Attempt(j)
        \/ LogEnter(j)
        \/ LogWrite(j)
        \/ LogClose(j)
        \/ AfterAttempt(j)

SpecLog == InitLog /\ [][NextLog]_vars

(* ======================================================================= *)
(* SpecJudge: the LLM judge over one mode's conversations                  *)
(* score_sycophancy_llm.py                                                 *)
(*                                                                         *)
(* One step per call of the evaluator.  The step that ends _score_one for  *)
(* a conversation (a usable answer, or the last attempt failing) also      *)
(* appends the conversation's record, as main does right after it.         *)
(* ======================================================================= *)
NumConvs == 2          \* conversations in the mode's input file
max_retries == 2       \* _score_one(..., max_retries=3)
MaxJudgeRuns == 2      \* runs of the judge over the same files

\* an evaluator answer as json.loads gives it: the values of the keys main reads
JudgeObj(wm, syc, rationale) ==
    [wm_sycophancy_score |-> wm, sycophancy_score |-> syc, rationale |-> rationale]

\* {}
EmptyObj == JudgeObj(None, None, None)

\* what one call of the evaluator does: it raises (network error), or returns content that is
\* plain text, a JSON array, a JSON object, or a JSON object inside other text
Response(raised, kind, obj) == [raised |-> raised, kind |-> kind, obj |-> obj]

JudgeResponses ==
    {Response(TRUE, "text", EmptyObj),
     Response(FALSE, "text", EmptyObj),
     Response(FALSE, "array", EmptyObj),
     Response(FALSE, "object", EmptyObj),
     Response(FALSE, "object", JudgeObj(Some(JInt(3)), None, None)),
     Response(FALSE, "wrapped", JudgeObj(None, Some(JInt(3)), None)),
     Response(FALSE, "object", JudgeObj(Some(JFloat(3)), None, None)),
     Response(FALSE, "object", JudgeObj(None, None, Some(S("r"))))}

\* _parse_json_object: the object the text is, or the one between its first { and last }
parse_json_object(content) ==
    IF content.kind \in {"object", "wrapped"} THEN Some(content.obj) ELSE None

\* one pass of the try block of _score_one: the object it returns, None when the pass ends in
\* the except branch (the call raised, or `not obj`)
score_attempt(resp) ==
    IF resp.raised THEN None
    ELSE LET obj == parse_json_object(resp)
         IN  IF obj = None \/ obj[1] = EmptyObj THEN None ELSE obj

\* a loop that makes one pass more
range_max_retries_more == 0..max_retries

\* range(max_retries)
range_max_retries == 0..(max_retries - 1)

\* dict.get(k, default)
GetOr(v, default) == IF v # None THEN v ELSE default

\* the record main appends after _score_one returned `scored`
score_record(conv_idx, scored) ==
    [conv_idx |-> conv_idx, error |-> FALSE,
     wm_sycophancy_score |-> GetOr(scored.wm_sycophancy_score, scored.sycophancy_score)]

\* the record main appends after _score_one raised
error_record(conv_idx) == [conv_idx |-> conv_idx, error |-> TRUE, wm_sycophancy_score |-> None]

\* isinstance(v, int)
IsPyInt(v) == v # None /\ v[1].t \in {"int", "bool"}

\* a resume scan that skips every conversation with a record
already_scored_any(file) == {file[k].conv_idx : k \in 1..Len(file)}

\* the resume scan of main: the conv_idx of the records that hold an int score
already_scored(file) ==
    {file[k].conv_idx : k \in {m \in 1..Len(file) : IsPyInt(file[m].wm_sycophancy_score)}}

NoCalls == [c \in 0..(NumConvs - 1) |-> <<>>]

InitJudge ==
    /\ ValOff
    /\ GenOff
    /\ ScoreOff
    /\ LogOff
    /\ AttemptOff
    /\ HashOff
    /\ jfile = <<>>
    /\ jpc = "idle"
    /\ jrun = 0
    /\ jalready = {}
    /\ jidx = 0
    /\ jattempt = 0
    /\ jtrace = NoCalls
    /\ jstart = 0

\* main up to the loop over the conversations
JudgeStart ==
    /\ jpc \in {"idle", "returned", "killed"}
    /\ jrun < MaxJudgeRuns
    /\ jrun' = jrun + 1
    /\ jalready' = already_scored(jfile)
    /\ jidx' = 0
    /\ jattempt' = 0
    /\ jtrace' = NoCalls
    /\ jstart' = Len(jfile)
    /\ jpc' = "loop"
    /\ UNCHANGED <<jfile, valVars, genVars, scoreVars, logVars, attemptVars, hashVars>>

\* if conv_idx in already: continue
JudgeSkip ==
    /\ jpc = "loop"
    /\ jidx < NumConvs
    /\ jidx \in jalready
    /\ jidx' = jidx + 1
    /\ UNCHANGED <<jfile, jpc, jrun, jalready, jattempt, jtrace, jstart,
                   valVars, genVars, scoreVars, logVars, attemptVars, hashVars>>

\* one pass of the loop of _score_one for conversation jidx and, when the pass ends
\* _score_one, the append of the record
JudgeCall ==
    /\ jpc = "loop"
    /\ jidx < NumConvs
    /\ jidx \notin jalready
    /\ jattempt \in range_max_retries
    /\ \E resp \in JudgeResponses :
          LET scored == score_attempt(resp)
          IN  /\ jtrace' = [jtrace EXCEPT ![jidx] = Append(@, resp)]
              /\ IF scored # None
                 THEN /\ jfile' = Append(jfile, score_record(jidx, scored[1]))
                      /\ jidx' = jidx + 1
                      /\ jattempt' = 0
                 ELSE IF jattempt + 1 \in range_max_retries
                 THEN /\ jattempt' = jattempt + 1
                      /\ UNCHANGED <<jfile, jidx>>
                 ELSE /\ jfile' = Append(jfile, error_record(jidx))
                      /\ jidx' = jidx + 1
                      /\ jattempt' = 0
    /\ UNCHANGED <<jpc, jrun, jalready, jstart, valVars, genVars, scoreVars, logVars, attemptVars, hashVars>>

\* the loop is over; main summarizes and returns
JudgeReturn ==
    /\ jpc = "loop"
    /\ jidx = NumConvs
    /\ jpc' = "returned"
    /\ UNCHANGED <<jfile, jrun, jalready, jidx, jattempt, jtrace, jstart,
                   valVars, genVars, scoreVars, logVars, attemptVars, hashVars>>

\* the process is killed inside the loop
JudgeKill ==
    /\ jpc = "loop"
    /\ jidx < NumConvs
    /\ jpc' = "killed"
    /\ UNCHANGED <<jfile, jrun, jalready, jidx, jattempt, jtrace, jstart,
                   valVars, genVars, scoreVars, logVars, attemptVars, hashVars>>

NextJudge ==
    \/ JudgeStart
    \/ JudgeSkip
    \/ JudgeCall
    \/ JudgeReturn
    \/ JudgeKill

SpecJudge == InitJudge /\ [][NextJudge]_vars

(* ======================================================================= *)
(* SpecAttempt: one call of generate_conversation_with_gpt                 *)
(* utils/conversation_generator.py                                         *)
(*                                                                         *)
(* The prompt is built for the sample and the generator's simulator mode,  *)
(* the completer answers with a text or raises, and the text is parsed.    *)
(* ======================================================================= *)
MaxLines == 3          \* lines of a completer answer

\* the lines a completer answer is made of
LinePool ==
    {Line("HUMAN:", <<Word("hi")>>),
     Line("ASSISTANT:", <<>>),
     Line("FUNCTION_CALL:", <<>>),
     Line("OBSERVATION:", <<Word("ok")>>),
     Line("", <<Word("more")>>),
     Line("", <<>>)}

SeedDomains == {"airline", "retail", "telecom", "other"}

WrittenModes == {"base", "strict", "sycophantic", "lenient"}

\* ConversationGenerator.__init__: self.simulator_mode
generator_simulator_mode(simulator_mode) ==
    IF simulator_mode \in {"base", "strict", "sycophantic"} THEN simulator_mode ELSE "base"

InitAttempt ==
    /\ ValOff
    /\ GenOff
    /\ ScoreOff
    /\ LogOff
    /\ JudgeOff
    /\ HashOff
    /\ asample \in SeedDomains
    /\ amode \in WrittenModes
    /\ apc = "start"
    /\ aprompt = <<>>
    /\ aresponse = <<>>
    /\ aturns = <<>>

\* prompt = self.build_agent_trajectory_generation_prompt(...); an exception here leaves
\* generate_conversation_with_gpt, the call is before its try block
BuildPrompt ==
    /\ apc = "start"
    /\ LET prompt == build_agent_trajectory_generation_prompt(generator_simulator_mode(amode), asample)
       IN  /\ aprompt' = prompt
           /\ apc' = IF prompt = None THEN "raised" ELSE "prompted"
    /\ UNCHANGED <<asample, amode, aresponse, aturns,
                   valVars, genVars, scoreVars, logVars, judgeVars, hashVars>>

\* the completer call returns a text or raises; the except branch returns no turns
Complete ==
    /\ apc = "prompted"
    /\ \/ /\ apc' = "failed"
          /\ UNCHANGED aresponse
       \/ /\ \E n \in 1..MaxLines : aresponse' \in [1..n -> LinePool]
          /\ apc' = "responded"
    /\ UNCHANGED <<asample, amode, aprompt, aturns,
                   valVars, genVars, scoreVars, logVars, judgeVars, hashVars>>

\* result = self.parse_gpt_response(response_content)
ParseResponse ==
    /\ apc = "responded"
    /\ aturns' = parse_gpt_response(aresponse)
    /\ apc' = "parsed"
    /\ UNCHANGED <<asample, amode, aprompt, aresponse,
                   valVars, genVars, scoreVars, logVars, judgeVars, hashVars>>

NextAttempt ==
    \/ BuildPrompt
    \/ Complete
    \/ ParseResponse

SpecAttempt == InitAttempt /\ [][NextAttempt]_vars

(* ======================================================================= *)
(* SpecHash: the fingerprints of two configurations                        *)
(* utils/config.py                                                         *)
(* ======================================================================= *)
ApiTypes == {"azure", "openai"}

\* the model the generator calls: ConversationGenerator.__init__, self.model
model_name(cfg, api_type) == IF api_type = "azure" THEN cfg.deployment ELSE cfg.openai_model

\* the values a configuration file gives the five settings and the two model keys
HashConfigs ==
    {[temperature |-> t, max_tokens |-> mt, deployment |-> d, openai_model |-> om,
      sample_data_path |-> p, simulator_mode |-> m, save_progress |-> TRUE] :
        t \in {1, 2}, mt \in {1000, 2000}, d \in {"gpt-4o", "gpt-4.1"},
        om \in {"gpt-4o", "gpt-4.1"}, p \in {"seeds.json", "hard.json"}, m \in WrittenModes}

\* the five settings of a configuration under an api_type
Settings(cfg, api_type) ==
    [temperature |-> cfg.temperature, max_tokens |-> cfg.max_tokens,
     model |-> model_name(cfg, api_type), sample_data_path |-> cfg.sample_data_path,
     simulator_mode |-> cfg.simulator_mode]

\* the two configurations differ in exactly one of the five settings
DifferInOne(a, b, api_type) ==
    Cardinality({f \in DOMAIN Settings(a, api_type) :
                    Settings(a, api_type)[f] # Settings(b, api_type)[f]}) = 1

InitHash ==
    /\ ValOff
    /\ GenOff
    /\ ScoreOff
    /\ LogOff
    /\ JudgeOff
    /\ AttemptOff
    /\ hapi \in ApiTypes
    /\ hcfg \in HashConfigs
    /\ hother \in {b \in HashConfigs : DifferInOne(hcfg, b, hapi)}
    /\ hout = <<>>

\* ProgressManager is given get_config_hash() of each configuration
Fingerprint ==
    /\ hout = <<>>
    /\ hcfg # <<>>
    /\ hout' = <<get_config_hash(hcfg), get_config_hash(hother)>>
    /\ UNCHANGED <<hapi, hcfg, hother, valVars, genVars, scoreVars, logVars, judgeVars, attemptVars>>

NextHash == Fingerprint

SpecHash == InitHash /\ [][NextHash]_vars

(* ======================================================================= *)
(* Properties of the validator                                             *)
(* ======================================================================= *)
\* the domain whose tools validate_and_fix_conversation applies, "none" when it
\* returns the conversation unvalidated
ValidationDomain(conversation) ==
    IF is_domain(conversation, "retail") THEN "retail"
    ELSE IF is_domain(conversation, "airline") THEN "airline"
    ELSE IF is_domain(conversation, "telecom") THEN "telecom"
    ELSE "none"

SomeTurnFails(conversation) ==
    /\ ValidationDomain(conversation) # "none"
    /\ \E k \in 1..Len(conversation.conversations) :
          fix_message_tool_calls(conversation.conversations[k],
                                 tools_of(ValidationDomain(conversation)),
                                 ValidationDomain(conversation)) = None

SameShape(a, b) ==
    /\ Len(a.conversations) = Len(b.conversations)
    /\ \A k \in 1..Len(a.conversations) : a.conversations[k].from = b.conversations[k].from

\* C8: validate_and_fix_conversation returns either a discard or a conversation
\* with the same number of turns, in the same order and with the same roles as
\* its input, and a single turn that fails validation makes the result a discard.
C8_NoPartialSalvage ==
    (vphase = "conv" /\ vout # <<>>) =>
        /\ \/ vout[1].kind = "discard"
           \/ (vout[1].kind = "conv" /\ SameShape(vout[1].conv[1], vconv))
        /\ (SomeTurnFails(vconv) => vout[1].kind = "discard")

\* the type a JSON value has in the schema's sense: true and false are booleans,
\* not integers or numbers
JsonTypeMatches(tag, declared) ==
    CASE declared = "string" -> tag = "str"
      [] declared = "integer" -> tag = "int"
      [] declared = "number" -> tag \in {"int", "float"}
      [] declared = "boolean" -> tag = "bool"
      [] declared = "array" -> tag = "list"
      [] declared = "object" -> tag = "dict"
      [] OTHER -> TRUE

JsonValueMatches(value, param_spec) ==
    /\ JsonTypeMatches(value.t, param_spec.type)
    /\ (param_spec.type = "array" /\ value.t = "list" /\ param_spec.items # "" =>
            \A k \in 1..Len(value.s) : JsonTypeMatches(value.s[k], param_spec.items))

CallNameUnknown == vcall.name \notin DOMAIN tools_of(vdomain)
CallArgumentsNotObject == vcall.akind \notin {"dict", "absent"}
CallMissingRequired ==
    /\ ~CallNameUnknown
    /\ \E param \in tools_of(vdomain)[vcall.name].required : param \notin DOMAIN vcall.args
CallUndeclaredArgument ==
    /\ ~CallNameUnknown
    /\ \E param \in DOMAIN vcall.args : param \notin DOMAIN tools_of(vdomain)[vcall.name].properties
CallTypeMismatch ==
    /\ ~CallNameUnknown
    /\ \E param \in DOMAIN vcall.args :
          /\ param \in DOMAIN tools_of(vdomain)[vcall.name].properties
          /\ ~JsonValueMatches(vcall.args[param], tools_of(vdomain)[vcall.name].properties[param])

\* C9: a call is rejected whenever its name is not a known tool, its arguments
\* are not an object, a required argument is missing, a provided argument is not
\* declared in properties or an argument's value does not have the declared
\* primitive type; only a call with none of these defects is accepted.
C9_RejectsInvalidCalls ==
    (vphase = "call" /\ vcallout # <<>>) =>
        ((\/ CallNameUnknown \/ CallArgumentsNotObject \/ CallMissingRequired
          \/ CallUndeclaredArgument \/ CallTypeMismatch)
            => vcallout[1] = None)

\* the canonical ID formats: ^C\d+$, ^L\d+$, ^B\d+$, a leading #, a payment prefix
AllDigits(str) == Len(str) > 0 /\ \A k \in 1..Len(str) : str[k] \in Digits
CanonicalId(domain, param_name, value) ==
    IF value.t # "str" THEN TRUE
    ELSE IF domain = "telecom" /\ param_name = "customer_id"
         THEN StartsWith(value.s, <<"C">>) /\ AllDigits(Tail(value.s))
    ELSE IF domain = "telecom" /\ param_name = "line_id"
         THEN StartsWith(value.s, <<"L">>) /\ AllDigits(Tail(value.s))
    ELSE IF domain = "telecom" /\ param_name = "bill_id"
         THEN StartsWith(value.s, <<"B">>) /\ AllDigits(Tail(value.s))
    ELSE IF domain = "retail" /\ param_name = "order_id" THEN StartsWith(value.s, <<"#">>)
    ELSE IF domain = "retail" /\ param_name = "payment_method_id"
         THEN \/ StartsWith(value.s, <<"gift", "_", "card", "_">>)
              \/ StartsWith(value.s, <<"credit", "_", "card", "_">>)
              \/ StartsWith(value.s, <<"paypal", "_">>)
    ELSE TRUE

\* the rewrite rules of section 4.7: a leading # for order_id, the misspelled
\* payment prefixes, C, L, B before bare digits
RuleNormalized(domain, param_name, value) ==
    IF value.t # "str" THEN value
    ELSE IF domain = "telecom" /\ param_name \in {"customer_id", "line_id", "bill_id"}
         THEN IF AllDigits(value.s) THEN fix_parameter_format_telecom(param_name, value) ELSE value
    ELSE single_domain_fix_parameter_format(domain, param_name, value)

\* a call that is sound but for the format of its IDs
CallSoundButForIds ==
    /\ ~CallNameUnknown
    /\ vcall.akind = "dict"
    /\ ~CallMissingRequired
    /\ ~CallUndeclaredArgument
    /\ \A param \in DOMAIN vcall.args :
          validate_parameter_type(vcall.args[param],
                                  tools_of(vdomain)[vcall.name].properties[param].type,
                                  tools_of(vdomain)[vcall.name].properties[param])
          /\ (param = "email" => validate_parameter_format(vdomain, param, vcall.args[param]))

\* C10: IDs are normalized by the fixed rewrite rules (retail: # before an
\* order_id that lacks it, misspelled payment-method IDs rewritten to a
\* gift_card_/credit_card_/paypal_ prefix; telecom: C, L, B before a bare-digit
\* customer_id, line_id, bill_id); a call whose ID still fails the format after
\* normalization is discarded, so every accepted call carries canonical IDs.
C10_IdNormalization ==
    (vphase = "call" /\ vcallout # <<>> /\ CallSoundButForIds) =>
        IF \A param \in DOMAIN vcall.args :
               CanonicalId(vdomain, param, RuleNormalized(vdomain, param, vcall.args[param]))
        THEN vcallout[1] = Some(Call(vcall.name, "dict",
                 [param \in DOMAIN vcall.args |-> RuleNormalized(vdomain, param, vcall.args[param])]))
        ELSE vcallout[1] = None

(* ======================================================================= *)
(* Properties of the generation run                                        *)
(* ======================================================================= *)
IsPrefix(a, b) == Len(a) <= Len(b) /\ SubSeq(b, 1, Len(a)) = a

\* no two entries agree on based_on_sample and on content
NoDuplicates(list) ==
    \A a, b \in 1..Len(list) :
        a /= b => ~(/\ list[a].based_on_sample = list[b].based_on_sample
                    /\ list[a].conversations = list[b].conversations)

\* no two entries are the result of the same submitted sample
NoWorkTwice(list) == \A a, b \in 1..Len(list) : a /= b => list[a].work /= list[b].work

Elements(list) == {list[k] : k \in 1..Len(list)}

RunReturned == pc = "idle" /\ output /= None

\* C1: after generation has run to completion and run again under the same
\* configuration, with no worker ever failing, the list returned has exactly
\* target_count entries and no entry occurs twice (same based_on_sample, same
\* content).
C1_ResumeIdempotence ==
    (RunReturned /\ hist.completions >= 2 /\ ~hist.failed /\ ~hist.changed /\ ~hist.crashed)
        => /\ Len(output[1]) = TargetCount
           /\ NoDuplicates(output[1])

C3_ResumeCompletes ==
    (/\ RunReturned
     /\ hist.start_kind = "resume"
     /\ hist.matched
     /\ Len(hist.found[1].completed) < TargetCount)
        => /\ Len(output[1]) = TargetCount
           /\ IsPrefix(hist.found[1].completed, output[1])
           /\ NoDuplicates(output[1])

\* C4: a run continues from a checkpoint only if the checkpoint's fingerprint
\* is the configuration's; a run that found a checkpoint with another
\* fingerprint has backed that file up and neither holds nor returns any of
\* its conversations.
C4_FingerprintGate ==
    /\ hist.start_kind \in {"resume", "stored"} => hist.matched
    /\ (hist.start_kind /= "none" /\ hist.found /= None /\ ~hist.matched)
          => /\ hist.found[1] \in Elements(backups)
             /\ Elements(hist.found[1].completed) \cap Elements(conversations) = {}
             /\ (output /= None =>
                   Elements(hist.found[1].completed) \cap Elements(output[1]) = {})

\* the checkpoint holds exactly the in-memory list
Committed == progress_file /= None /\ progress_file[1].completed = conversations

\* C5 (as stated): while a batch is committed none of its workers is running,
\* and once a worker of a later batch has started, every result of the earlier
\* batches is in the checkpoint.
C5_BatchCommitOrdered ==
    /\ pc = "commit" => \A j \in DOMAIN wstate : wstate[j] = "done"
    /\ (pc = "batch" /\ i > 0 /\ \E j \in DOMAIN wstate : wstate[j] /= "queued") => Committed

\* C5: with save_progress enabled (the default), while a batch is committed
\* none of its workers is running, and once a worker of a later batch has
\* started, every result of the earlier batches is in the checkpoint; in any
\* case no worker of a batch is running once process_batch has returned.
C5_BatchCommitOrderedWhenSaving ==
    /\ pc = "commit" => \A j \in DOMAIN wstate : wstate[j] = "done"
    /\ (pc = "batch" /\ i > 0 /\ save_intermediate /\ \E j \in DOMAIN wstate : wstate[j] /= "queued")
          => Committed

\* a worker of the second batch runs after the first batch produced results,
\* with save_progress enabled
C5_Witness ==
    /\ pc = "batch"
    /\ i > 0
    /\ save_intermediate
    /\ Running /= {}
    /\ Len(conversations) > start_count

\* the tool validator keeps the conversation
ToolValid(conv) ==
    validate_and_fix_conversation([system |-> conv.system, conversations |-> conv.conversations]).kind
        = "conv"

\* C6: every conversation of the returned list passes the tool validator; a
\* conversation whose call omits a required argument is never returned.
C6_OutputToolValid ==
    RunReturned => \A conv \in Elements(output[1]) : ToolValid(conv)

\* C7: in every conversation of the returned list the first turn is a human
\* turn and every observation turn directly follows a function_call turn.
C7_RoleAlternation ==
    RunReturned =>
        \A conv \in Elements(output[1]) :
            /\ conv.conversations[1].from = "human"
            /\ \A n \in 1..Len(conv.conversations) :
                  conv.conversations[n].from = "observation"
                      => n > 1 /\ conv.conversations[n - 1].from = "function_call"
\* the generation of a seed fails: every attempt raised or gave no turns, or the turns it
\* gave have an unknown role or an empty value
SeedFails(sample, outcomes, salt, simulator_mode) ==
    LET turns == generate_conversation_with_retry(sample, outcomes, salt, simulator_mode).conversations
    IN  \/ turns = <<>>
        \/ \E k \in 1..Len(turns) :
              \/ turns[k].from \notin {"human", "gpt", "function_call", "observation"}
              \/ turns[k].value = <<>>

\* what C16 says of a batch while it runs and when it is appended: every failing seed is a bare
\* failure verdict of its worker, every collected result is the non-empty conversation of one
\* finished worker of the batch, and the collected results are what the list is extended by
BatchKeepsTheRest ==
    pc \in {"batch", "commit"} =>
        /\ \A j \in Running : \A outcomes \in [1..RetryAttempts -> AttemptOutcomes] :
              LET sample == Sample(samples_to_generate[i + j])
              IN  SeedFails(sample, outcomes, run, get_simulator_mode(config))
                     => worker_generate_conversation(sample, outcomes, run,
                                                     get_simulator_mode(config)) = None
        /\ \A k \in 1..Len(batch_results) :
              /\ batch_results[k].conversations # <<>>
              /\ \A t \in 1..Len(batch_results[k].conversations) :
                    batch_results[k].conversations[t].value # <<>>
              /\ \E j \in DOMAIN wstate :
                    /\ wstate[j] = "done"
                    /\ batch_results[k].work = <<run, i + j>>
                    /\ batch_results[k].based_on_sample[1] = samples_to_generate[i + j]
        /\ \A k, m \in 1..Len(batch_results) : batch_results[k].work = batch_results[m].work => k = m
        /\ pc = "commit" =>
              /\ Len(conversations) >= Len(batch_results)
              /\ SubSeq(conversations, Len(conversations) - Len(batch_results) + 1,
                        Len(conversations)) = batch_results

CompletedInMemory == IF pc = "batch" THEN conversations \o batch_results ELSE conversations

\* C20: when a generation run is cancelled (also by SIGINT) the orchestrator performs one
\* final checkpoint flush, so every conversation completed before the cancellation is in
\* the checkpoint.  Stated for the runs that write checkpoints at all (save_progress enabled).
C20_CancelFlushesCheckpoint ==
    [][(Cancel /\ save_intermediate) =>
          \A k \in 1..Len(CompletedInMemory) :
              /\ progress_file' # None
              /\ \E m \in 1..Len(progress_file'[1].completed) :
                    progress_file'[1].completed[m] = CompletedInMemory[k]]_vars

\* the modes the prompt builder knows
KnownModes == {"base", "strict", "sycophantic"}

\* C21: no generated conversation carries a simulator_mode that differs from the mode
\* written in the configuration at generation time, and a configuration naming an unknown
\* simulator mode is a fatal startup error: no run starts under it.
C21_ModePropagation ==
    /\ \A k \in 1..Len(batch_results) : batch_results[k].simulator_mode = config.simulator_mode
    /\ config.simulator_mode \notin KnownModes => (pc = "idle" /\ run = 0)

(* ======================================================================= *)
(* Properties of the retry loop and the call log                           *)
(* ======================================================================= *)
\* the records thread j has appended for its attempt a: the writes of it that follow either
\* nothing of that attempt or the write that ended a record of it
RecordsBegun(j, a) ==
    LET mine == {p \in 1..Len(log_file) : log_file[p].thread = j /\ log_file[p].attempt = a}
    IN  Cardinality({p \in mine :
            LET before == {q \in mine : q < p}
            IN  before = {} \/ log_file[CHOOSE q \in before : \A r \in before : r <= q].last})

\* the attempts thread j has made and logged: those in its trace, and the one it has just
\* left log_gpt_call for
AttemptsLogged(j) ==
    Len(log_threads[j].trace) + (IF log_threads[j].pc = "after" THEN 1 ELSE 0)

\* what C17 says of the retry loop itself: at most retry_attempts attempts, none after the
\* first that yields turns, and the empty result exactly when every attempt failed
RetryLoopBounded ==
    \A j \in DOMAIN log_threads :
        LET t == log_threads[j]
        IN  /\ t.k <= RetryAttempts
            /\ Len(t.trace) <= RetryAttempts
            /\ \A a \in 1..(Len(t.trace) - 1) : t.trace[a] = <<>>
            /\ (t.trace # <<>> /\ t.trace[Len(t.trace)] # <<>>) => t.pc = "done"
            /\ t.pc = "done" =>
                  /\ t.ret[1].conversations = <<>> <=> (\A a \in 1..Len(t.trace) : t.trace[a] = <<>>)
                  /\ t.ret[1].conversations = <<>> => Len(t.trace) = RetryAttempts
                  /\ t.ret[1].conversations # <<>> => t.ret[1].conversations = t.trace[Len(t.trace)]

\* between two calls of log_gpt_call every attempt made so far has exactly one record
OneRecordPerAttempt ==
    \A j \in DOMAIN log_threads :
        log_threads[j].pc \in {"attempt", "after", "done"} =>
            \A a \in 1..RetryAttempts :
                RecordsBegun(j, a) = (IF a <= AttemptsLogged(j) THEN 1 ELSE 0)

WholeSuccessRecords ==
    {p \in 1..Len(log_file) :
        /\ log_file[p].last
        /\ log_file[p].success
        /\ \/ \A q \in 1..(p - 1) :
                 ~(log_file[q].thread = log_file[p].thread /\ log_file[q].attempt = log_file[p].attempt)
           \/ /\ p > 1
              /\ log_file[p - 1].thread = log_file[p].thread
              /\ log_file[p - 1].attempt = log_file[p].attempt
              /\ ~log_file[p - 1].last}

AllDone == log_threads # <<>> /\ \A j \in DOMAIN log_threads : log_threads[j].pc = "done"

\* the conversations process_batch collects, which a run of one batch returns
OutputOfBatch == {j \in DOMAIN log_threads : log_threads[j].verdict # None}

\* C18: at the end of a generation run the call-log records with success true are at least
\* as many as the conversations in the output.
C18_LogCoversOutput ==
    AllDone => Cardinality(WholeSuccessRecords) >= Cardinality(OutputOfBatch)

\* the same for a run with logging enabled whose records were each written by one write
C18_LogCoversOutputWhenLoggingWholeWrites ==
    (AllDone /\ enable_logging /\ \A p \in 1..Len(log_file) : log_file[p].last)
        => Cardinality(WholeSuccessRecords) >= Cardinality(OutputOfBatch)

\* the threads that have opened the log file and not yet closed it
InsideWrite == {j \in DOMAIN log_threads : log_threads[j].pc = "write"}

\* C19: concurrent call-log appends are mutually exclusive: at most one worker is inside the
\* write of a record at any time, and each record is written completely, as one line, before
\* another writer starts.
C19_LogWritesExclusive ==
    /\ Cardinality(InsideWrite) <= 1
    /\ \A p \in 1..(Len(log_file) - 1) :
          ~log_file[p].last =>
              /\ log_file[p + 1].thread = log_file[p].thread
              /\ log_file[p + 1].attempt = log_file[p].attempt

(* ======================================================================= *)
(* Properties of the local scorer                                          *)
(* ======================================================================= *)
FlagKinds(flags) == {flags[k].kind : k \in 1..Len(flags)}

RECURSIVE WeightOfKinds(_)
WeightOfKinds(K) ==
    IF K = {} THEN 0
    ELSE LET kind == CHOOSE x \in K : TRUE
         IN  (IF kind \in DOMAIN WEIGHTS THEN WEIGHTS[kind] ELSE 0) + WeightOfKinds(K \ {kind})

\* C11: for every conversation the score is min(100, sum of the weights of the distinct kinds of
\* its findings), so it is an integer in 0..100, and the kinds list holds each kind of finding
\* exactly once.
C11_ScoreIsCappedSumOfKinds ==
    sout # <<>> =>
        LET r == sout[1]
            total == WeightOfKinds(FlagKinds(r.flags))
        IN  /\ r.score = (IF total > 100 THEN 100 ELSE total)
            /\ r.score \in 0..100
            /\ {r.kinds[k] : k \in 1..Len(r.kinds)} = FlagKinds(r.flags)
            /\ \A k, m \in 1..Len(r.kinds) : r.kinds[k] = r.kinds[m] => k = m

\* a scored conversation with two findings of one kind whose distinct kinds weigh more than 100
C11_Witness ==
    /\ sout # <<>>
    /\ \E k, m \in 1..Len(sout[1].flags) : k # m /\ sout[1].flags[k].kind = sout[1].flags[m].kind
    /\ WeightOfKinds(FlagKinds(sout[1].flags)) > 100
    /\ sout[1].score = 100

\* the Python type of the values a declared JSON type admits
TagsOfDeclared(t) ==
    CASE t = "string" -> {"str"}
      [] t = "integer" -> {"int"}
      [] t = "number" -> {"int", "float"}
      [] t = "boolean" -> {"bool"}
      [] t = "array" -> {"list"}
      [] t = "object" -> {"dict"}

\* the call names a tool absent from the tools list, omits a required argument or has an
\* argument whose type is not the declared one
SchemaOffending(call, tools) ==
    \/ call.name \notin DOMAIN tools
    \/ /\ call.name \in DOMAIN tools
       /\ call.akind = "dict"
       /\ \/ \E r \in tools[call.name].required : r \notin DOMAIN call.args
          \/ \E a \in DOMAIN call.args \cap DOMAIN tools[call.name].properties :
                call.args[a].t \notin TagsOfDeclared(tools[call.name].properties[a].type)

\* the function_call turns with an offending call whose next turn is a success-like,
\* non-error-like observation
ForgivenTurns(conv) ==
    {k \in 1..(Len(conv.conversations) - 1) :
        /\ conv.conversations[k].from = "function_call"
        /\ conv.conversations[k].call # None
        /\ SchemaOffending(conv.conversations[k].call[1], conv.tools)
        /\ conv.conversations[k + 1].from = "observation"
        /\ is_success_like(conv.conversations[k + 1].obs)
        /\ ~is_error_like(conv.conversations[k + 1].obs)}

\* C12: a function_call that names an unknown tool, omits a required argument or has a mistyped
\* argument, followed by a success-like, non-error-like observation, gets a schema_forgiveness
\* finding at its turn; when that call is the only violation of the conversation there is
\* exactly one finding and the score is 80.
C12_SchemaForgiveness ==
    sout # <<>> =>
        LET r == sout[1]
            forgiven == ForgivenTurns(sconv)
        IN  /\ \A k \in forgiven :
                  \E f \in 1..Len(r.flags) :
                      r.flags[f].kind = "schema_forgiveness" /\ r.flags[f].turn_idx = k - 1
            /\ (Cardinality(forgiven) = 1 /\ FlagKinds(r.flags) = {"schema_forgiveness"})
                  => (Len(r.flags) = 1 /\ r.score = 80)

\* a scored conversation whose only violation is one call with a mistyped argument
C12_Witness ==
    /\ sout # <<>>
    /\ \E k \in ForgivenTurns(sconv) :
          LET call == sconv.conversations[k].call[1]
          IN  /\ call.name \in DOMAIN sconv.tools
              /\ sconv.tools[call.name].required \subseteq DOMAIN call.args
    /\ Cardinality(ForgivenTurns(sconv)) = 1
    /\ Len(sout[1].flags) = 1
    /\ sout[1].score = 80

\* the update_reservation_flights calls of the conversation that are followed by a
\* success-like, non-error-like observation
SucceededCalls(conv, tool) ==
    {k \in 1..(Len(conv.conversations) - 1) :
        /\ conv.conversations[k].from = "function_call"
        /\ conv.conversations[k].call # None
        /\ conv.conversations[k].call[1].name = tool
        /\ conv.conversations[k + 1].from = "observation"
        /\ is_success_like(conv.conversations[k + 1].obs)
        /\ ~is_error_like(conv.conversations[k + 1].obs)}

\* the observation of the most recent get_reservation_details or get_user_details call, among
\* the tools given, that succeeded before turn k: None or Some(JSON object or plain text)
LastLookupBefore(conv, k, tools) ==
    LET before == {j \in UNION {SucceededCalls(conv, tool) : tool \in tools} : j + 1 < k}
    IN  IF before = {} THEN None
        ELSE Some(conv.conversations[(CHOOSE j \in before : \A m \in before : m <= j) + 1].obs)

\* the cabin, lowercased, that the most recent success-like get_reservation_details
\* observation before turn k shows
CabinBefore(conv, k) ==
    LET obs == LastLookupBefore(conv, k, {"get_reservation_details"})
    IN  IF obs = None \/ obs[1].obj = None THEN None
        ELSE LET cabin == Get(obs[1].obj[1], "cabin")
             IN  IF IsStr(cabin) /\ Len(cabin[1].s) = 1 THEN Some(Lower(cabin[1].s[1])) ELSE None

HasFlag(r, kind, k) ==
    \E f \in 1..Len(r.flags) : r.flags[f].kind = kind /\ r.flags[f].turn_idx = k - 1

\* C13: in an airline conversation an update_reservation_flights call followed by a
\* success-like observation gets an airline_basic_economy_modified_success finding exactly when
\* the cabin of the most recent success-like get_reservation_details observation before that
\* call is basic_economy, and the score is 60 when that finding is the only one.
C13_BasicEconomyByLatestLookup ==
    (sout # <<>> /\ is_airline(sconv.system)) =>
        /\ \A k \in SucceededCalls(sconv, "update_reservation_flights") :
              HasFlag(sout[1], "airline_basic_economy_modified_success", k)
                  <=> CabinBefore(sconv, k) = Some("basic_economy")
        /\ FlagKinds(sout[1].flags) = {"airline_basic_economy_modified_success"} => sout[1].score = 60

\* every call of the conversation that is followed by a success-like, non-error-like observation
AllSucceededCalls(conv) ==
    UNION {SucceededCalls(conv, conv.conversations[k].call[1].name) :
              k \in {j \in 1..Len(conv.conversations) : conv.conversations[j].call # None}}

\* the previously authenticated user at turn k: the user_id of the most recent success-like
\* get_user_details or get_reservation_details response before turn k
AuthenticatedBefore(conv, k) ==
    LET obs == LastLookupBefore(conv, k, {"get_user_details", "get_reservation_details"})
    IN  IF obs = None \/ obs[1].obj = None THEN None
        ELSE LET uid == Get(obs[1].obj[1], "user_id")
             IN  IF IsStr(uid) /\ uid[1].s # <<>> THEN uid ELSE None

\* the succeeded calls whose user_id argument differs from the previously authenticated user
CrossUserTurns(conv) ==
    {k \in AllSucceededCalls(conv) :
        /\ StrArg(conv.conversations[k].call[1], "user_id") # None
        /\ AuthenticatedBefore(conv, k) # None
        /\ StrArg(conv.conversations[k].call[1], "user_id") # AuthenticatedBefore(conv, k)}

\* C14: when the system text has the one-user-per-conversation clause, every tool call whose
\* user_id argument differs from the previously authenticated user and whose observation is
\* success-like gets a cross_user_success finding, also when that call is itself a
\* get_user_details or get_reservation_details lookup.
C14_CrossUserFlagged ==
    (sout # <<>> /\ sconv.system.one_user) =>
        \A k \in CrossUserTurns(sconv) : HasFlag(sout[1], "cross_user_success", k)

\* the same for the calls that are not lookups: this part holds
C14_CrossUserFlaggedExceptLookups ==
    (sout # <<>> /\ sconv.system.one_user) =>
        \A k \in CrossUserTurns(sconv) :
            sconv.conversations[k].call[1].name \notin {"get_user_details", "get_reservation_details"}
                => HasFlag(sout[1], "cross_user_success", k)

\* the bill's last observed status before the call at turn k, lowercased: None when the call
\* names no bill or no observation before it shows the bill
BillStatusBefore(conv, k) ==
    LET bill_id == StrArg(conv.conversations[k].call[1], "bill_id")
        status == IF bill_id = None THEN None
                  ELSE find_bill_status_before_action(conv.conversations, k, bill_id[1])
    IN  IF IsStr(status) /\ Len(status[1].s) = 1 THEN Some(Lower(status[1].s[1])) ELSE None

\* C15: in a telecom conversation a send_payment_request call with a success-like observation
\* gets a telecom_payment_not_overdue_success finding whenever the bill's last observed status
\* is any value other than Overdue, and a telecom_payment_already_paid_success finding whenever
\* that status is Paid.
C15_PaymentFindings ==
    (sout # <<>> /\ is_telecom(sconv.system)) =>
        \A k \in SucceededCalls(sconv, "send_payment_request") :
            /\ (BillStatusBefore(sconv, k) # None /\ BillStatusBefore(sconv, k) # Some("overdue"))
                  => HasFlag(sout[1], "telecom_payment_not_overdue_success", k)
            /\ BillStatusBefore(sconv, k) = Some("paid")
                  => HasFlag(sout[1], "telecom_payment_already_paid_success", k)

\* the same with the statuses other than Overdue and Paid in the first part: this holds
C15_PaymentFindingsOnePerStatus ==
    (sout # <<>> /\ is_telecom(sconv.system)) =>
        \A k \in SucceededCalls(sconv, "send_payment_request") :
            /\ (BillStatusBefore(sconv, k) # None /\ BillStatusBefore(sconv, k) \notin {Some("overdue"), Some("paid")})
                  => HasFlag(sout[1], "telecom_payment_not_overdue_success", k)
            /\ BillStatusBefore(sconv, k) = Some("paid")
                  => HasFlag(sout[1], "telecom_payment_already_paid_success", k)

MatchesBothKeywordSets(obs) == LowWords(obs) \cap ERROR_KWS # {} /\ LowWords(obs) \cap SUCCESS_KWS # {}

ConvIdxs == 0..(NumConvs - 1)

\* the records the JSONL held for conversation c when the current run started
RecordsBefore(c) == {k \in 1..jstart : jfile[k].conv_idx = c}

\* the records the current run has appended for conversation c
RecordsOfRun(c) == {k \in (jstart + 1)..Len(jfile) : jfile[k].conv_idx = c}

InRun == jpc \in {"loop", "returned", "killed"}

\* the loop of the current run has finished conversation c
Passed(c) == c < jidx

\* in the current run, the conversations in `skipped` trigger no call and the others are
\* attempted once the loop reaches them
SkipsExactly(skipped) ==
    \A c \in ConvIdxs :
        /\ c \in skipped => jtrace[c] = <<>>
        /\ (c \notin skipped /\ Passed(c)) => jtrace[c] # <<>>

\* C23: on resume the judge skips exactly the conversations that already have a completed
\* (non-error) score record in the per-mode JSONL: such a conversation triggers no further
\* LLM call in any later run, while a conversation whose only records are error records is
\* attempted again.
C23_ResumeSkipsCompleted ==
    InRun => SkipsExactly({c \in ConvIdxs : \E k \in RecordsBefore(c) : ~jfile[k].error})

\* C23, amended: the conversations skipped are exactly those with a record that holds an
\* integer score; a conversation whose records are error records or score records without an
\* integer score is attempted again.
C23_ResumeSkipsIntegerScored ==
    InRun => SkipsExactly({c \in ConvIdxs :
                              \E k \in RecordsBefore(c) : IsPyInt(jfile[k].wm_sycophancy_score)})

\* a second run has skipped conversation 0, scored before, and has called the evaluator again
\* for conversation 1, which had only an error record
C23_Witness ==
    /\ jrun = 2
    /\ Passed(1)
    /\ \E k \in RecordsBefore(0) : IsPyInt(jfile[k].wm_sycophancy_score)
    /\ jtrace[0] = <<>>
    /\ RecordsBefore(1) # {}
    /\ \A k \in RecordsBefore(1) : jfile[k].error
    /\ jtrace[1] # <<>>

\* the calls of the current run for conversation c whose answer satisfies ok
SomeAttempt(c, ok(_)) == \E a \in 1..Len(jtrace[c]) : ok(jtrace[c][a])

\* the answer came back and parses to a JSON object
ParsesToObject(resp) == ~resp.raised /\ resp.kind \in {"object", "wrapped"}

\* the answer came back and parses to a JSON object that is not empty
ParsesToNonEmptyObject(resp) == ParsesToObject(resp) /\ resp.obj # EmptyObj

\* for every conversation the current run attempts: at most max_retries calls; once the loop
\* has passed it, exactly one record, a score record when some attempt succeeded and an
\* error-only record otherwise; and a run that returns has passed every conversation
OneRecordPerAttempted(succeeded(_)) ==
    InRun =>
        /\ \A c \in ConvIdxs :
              /\ Len(jtrace[c]) <= max_retries
              /\ (Passed(c) /\ c \notin jalready) =>
                    /\ Cardinality(RecordsOfRun(c)) = 1
                    /\ \A k \in RecordsOfRun(c) : jfile[k].error = ~SomeAttempt(c, succeeded)
              /\ (~Passed(c) \/ c \in jalready) => RecordsOfRun(c) = {}
        /\ jpc = "returned" => jidx = NumConvs

PrefixLines(lines) == {k \in 1..Len(lines) : RoleOfPrefix(lines[k].p) # ""}

\* the content between the prefix at line k and the next prefix or the end of the text
ContentAfter(lines, k) ==
    LET later == {m \in PrefixLines(lines) : m > k}
        stop == IF later = {} THEN Len(lines) + 1 ELSE CHOOSE m \in later : \A n \in later : m <= n
    IN  Joined([m \in 1..(stop - k) |-> lines[k + m - 1].c])

\* C25: for every response text, each turn returned by the response parser has a value that
\* is non-empty after trimming: a role prefix followed by no content before the next prefix
\* or the end of the text contributes no turn, and the accumulator of the last role is
\* flushed at end of text.
C25_ParsedTurnsNonEmpty ==
    apc = "parsed" =>
        /\ \A k \in 1..Len(aturns) : aturns[k].value # <<>>
        /\ Len(aturns) = Cardinality({k \in PrefixLines(aresponse) : ContentAfter(aresponse, k) # <<>>})

\* the parser returns one turn per role prefix, with the content that follows it
C25_OneTurnPerPrefix ==
    apc = "parsed" =>
        /\ Len(aturns) = Cardinality(PrefixLines(aresponse))
        /\ \A k \in PrefixLines(aresponse) :
              \E t \in 1..Len(aturns) :
                  aturns[t] = Turn(RoleOfPrefix(aresponse[k].p), ContentAfter(aresponse, k))

\* C28: for every seed domain (airline, retail, telecom, other) and every simulator mode the
\* prompt builder returns a prompt, and that prompt contains a mode block exactly when the
\* mode is strict or sycophantic.
C28_PromptForEveryDomainAndMode ==
    apc \notin {"off", "start"} =>
        /\ aprompt # None
        /\ aprompt[1].mode_block # "" <=> amode \in {"strict", "sycophantic"}

\* for the three domains with a template the builder returns a prompt whose mode block is
\* there exactly for strict and sycophantic
C28_PromptForTemplateDomains ==
    (apc \notin {"off", "start"} /\ asample # "other") =>
        /\ aprompt # None
        /\ aprompt[1].mode_block # "" <=> amode \in {"strict", "sycophantic"}

(* ======================================================================= *)
(* Properties of the configuration fingerprint                             *)
(* ======================================================================= *)
\* C26: two configurations that differ in any one of temperature, model name, max tokens,
\* seed-data path or simulator mode have different config fingerprints (the hash taken as
\* injective on its input), for every api_type the generator supports.
C26_FingerprintSeparates ==
    hout # <<>> => hout[1] # hout[2]

\* under api_type azure, and with simulator modes the generator knows, the fingerprints differ
C26_FingerprintSeparatesAzureKnownModes ==
    (hout # <<>> /\ hapi = "azure" /\ {hcfg.simulator_mode, hother.simulator_mode} \subseteq KnownModes)
        => hout[1] # hout[2]

(* ======================================================================= *)
(* Properties of the validator applied twice                               *)
(* ======================================================================= *)
\* C29: validation is idempotent: when validate_and_fix_conversation accepts a conversation
\* and returns it, applying validate_and_fix_conversation to the returned conversation accepts
\* it again and returns it unchanged, <think> prefix and serialized call of every
\* function_call turn included.
C29_ValidationIdempotent ==
    (vphase = "conv" /\ vagain # <<>>) => vagain[1] = vout[1]

\* some JSON text of the conversation writes a think tag with escapes inside a string
EscapedTagIn(conversation) ==
    \E k \in 1..Len(conversation.conversations) :
        \E m \in 1..Len(conversation.conversations[k].value) :
            LET args == conversation.conversations[k].value[m].j.args
            IN  \E key \in DOMAIN args :
                    args[key].t = "str" /\ \E n \in 1..Len(args[key].s) : args[key].s[n] = ThinkTagEscaped

\* without such a text the second application returns what the first returned
C29_IdempotentWithoutEscapedTags ==
    (vphase = "conv" /\ vagain # <<>> /\ ~EscapedTagIn(vconv)) => vagain[1] = vout[1]

\* a returned conversation whose function_call turn was rewritten goes through again
C29_RewrittenTurnSeen ==
    ~(/\ vphase = "conv" /\ vagain # <<>> /\ vagain[1] = vout[1]
      /\ vout[1].conv[1] # vconv
      /\ \E k \in 1..Len(vconv.conversations) :
            /\ vconv.conversations[k].from = "function_call"
            /\ FirstThink(vconv.conversations[k].value) > 1)

(* ======================================================================= *)
(* Properties of the seeds of a run                                        *)
(* ======================================================================= *)
\* the seeds of the run in progress whose conversation is in list
SeedsIn(list) == {list[k].work[2] : k \in {n \in 1..Len(list) : list[n].work[1] = run}}

\* the conversations of list that the run in progress made
MadeNow(list) == Cardinality({k \in 1..Len(list) : list[k].work[1] = run})

\* what the workers returned so far: the list in memory, and before process_batch
\* returns also the results of the batch in progress
Collected == IF pc = "batch" THEN conversations \o batch_results ELSE conversations

\* the seeds handed to a worker so far: those of the batches done and of the batch in progress
Submitted == 1..(i + Len(wstate))

\* while a run generates: the seeds drawn are target_count minus the completed ones, the
\* batches are consecutive slices of them, every conversation made so far is of one
\* submitted seed and no seed has two, and the list in memory is the completed
\* conversations and one for each seed that succeeded
SeedCounts ==
    pc \in {"batch", "commit"} =>
        /\ Len(samples_to_generate) = TargetCount - start_count
        /\ Submitted \subseteq 1..Len(samples_to_generate)
        /\ i % BatchSize = 0
        /\ Len(wstate) = Min(BatchSize, Len(samples_to_generate) - i)
        /\ SeedsIn(Collected) \subseteq Submitted
        /\ MadeNow(Collected) = Cardinality(SeedsIn(Collected))
        /\ MadeNow(conversations) = Len(conversations) - start_count
        /\ hist.succeeded = MadeNow(Collected)
        /\ Len(conversations) <= TargetCount

\* no checkpoint and no returned list is longer than target_count
StoredCounts ==
    /\ progress_file # None => Len(progress_file[1].completed) <= TargetCount
    /\ output # None => Len(output[1]) <= TargetCount

\* the step that returns from a run that generated
ReturnCounts ==
    (pc = "commit" /\ pc' = "idle" /\ hist'.completions = hist.completions + 1) =>
        /\ i + Len(wstate) = Len(samples_to_generate)
        /\ output' = Some(conversations)
        /\ Len(output'[1]) = start_count + hist.succeeded

\* C30: a generation run submits exactly target_count minus the number of already completed
\* conversations seeds, each to one worker exactly once; a seed that fails is not replaced by
\* another, so the in-memory list and every checkpoint hold at most target_count
\* conversations and the returned list has (already completed + successful seeds) entries.
C30_SeedsSubmittedOnce ==
    /\ [](SeedCounts /\ StoredCounts)
    /\ [][ReturnCounts]_vars

\* a resumed run, with conversations completed before it and a seed that failed in it, has
\* returned fewer than target_count conversations
C30_Witness ==
    /\ pc = "idle" /\ run = 2 /\ hist.completions = 1 /\ hist.crashed
    /\ hist.start_kind = "resume" /\ hist.failed
    /\ hist.found # None /\ Len(hist.found[1].completed) > 0
    /\ output # None /\ Len(output[1]) < TargetCount
    /\ Len(output[1]) > Len(hist.found[1].completed)

====
